---- MODULE Spec2Model ----
(***************************************************************************)
(* AIS/ARPA matching engine of listen-websocket-fastapi, the upstream     *)
(* listener that triggers it and broadcasts its results, and the data      *)
(* cache (Redis with an in-memory fallback).                               *)
(*                                                                         *)
(* Fixed-point conventions (the source computes in floating point):        *)
(*   latitude, longitude : micro-degrees                                   *)
(*   planar x, y, d_m    : metres                                          *)
(*   speeds              : tenths of a knot (raw), mm/s (converted)        *)
(*   angles              : degrees                                         *)
(*   times               : epoch seconds                                   *)
(*   sub-scores, weights : thousandths (1000 = 1.0)                        *)
(*   s_total, thresholds : millionths (1000000 = 1.0)                      *)
(***************************************************************************)
EXTENDS Integers, Sequences, FiniteSets, TLC

----------------------------------------------------------------------------
(* Bounds of the model *)

\* rows a data-store query returns to one matching cycle
MaxAis == 2
MaxArpa == 2
\* candidates handed to assign_one_to_one when it is exercised on its own
MaxCands == 4
\* subscribers that connect to /ws
MaxClients == 2
\* what the outside world does in one run: frames sent, connections refused
\* or ended, start and stop requests, subscribers arriving and leaving
MaxEvents == 5
\* DataCache.max_size, scaled down
CacheMaxSize == 2
\* DataCache.ttl_seconds in ticks of the wall clock, scaled down
CacheTtl == 2
\* the last tick of the wall clock
MaxClock == 4
MaxCalls == 6
MaxRing == 4

----------------------------------------------------------------------------
(* Configuration: app/core/config.py, MatchingController.__init__ *)

SITE_LAT == -1279656
SITE_LON == 116809655
GATING_DISTANCE_M == 8000
TIME_GATE_S == 1800
\* MATCH_THRESHOLD is read from the environment: the settings default and the
\* controller's getattr default are the two values the model is built with
MATCH_THRESHOLD == 600000
MATCH_THRESHOLD_FALLBACK == 800000
ThresholdChoices == {MATCH_THRESHOLD, MATCH_THRESHOLD_FALLBACK}

\* 1.0 and the cost of a cell without candidate (1.5), in millionths
ONE_TOTAL == 1000000
DEFAULT_COST == 1500000

PROJECTION == "EPSG:32650"

\* ScoringParams: the dataclass defaults
DefaultScoringParams ==
    [pos_sigma_m |-> 150, spd_sigma_ms |-> 1500, hdg_sigma_deg |-> 20,
     time_sigma_s |-> 30,
     w_pos |-> 500, w_spd |-> 150, w_brg |-> 150, w_time |-> 200,
     range_sigma_m |-> 0, brg_geo_sigma_deg |-> 0,
     w_range |-> 0, w_brg_geo |-> 0]

\* ScoringParams built by MatchingController.__init__: the sigmas and the two
\* optional weights are given, w_pos, w_spd, w_brg, w_time keep their defaults
ControllerScoringParams ==
    [DefaultScoringParams EXCEPT
        !.pos_sigma_m = 500, !.spd_sigma_ms = 3000, !.hdg_sigma_deg = 40,
        !.time_sigma_s = 60, !.range_sigma_m = 1500, !.brg_geo_sigma_deg = 15,
        !.w_range = 150, !.w_brg_geo = 150]

\* ScoringParams built by WebSocketListener.__init__: only the four sigmas
ListenerScoringParams ==
    [DefaultScoringParams EXCEPT
        !.pos_sigma_m = 500, !.spd_sigma_ms = 3000, !.hdg_sigma_deg = 40,
        !.time_sigma_s = 60]

----------------------------------------------------------------------------
(* State *)

VARIABLES
    match_threshold,     \* MatchingController.match_threshold
    pc,                  \* position of the running call
    polygon,             \* process_matching argument: <<>> (None) or <<ring>>
    ais_data,            \* fetch_ais_data result
    arpa_data,           \* fetch_arpa_data result
    ais_df,              \* prepared AIS rows
    arpa_df,             \* prepared ARPA rows
    candidates,          \* build_candidates result
    accept_threshold,    \* assign_one_to_one argument
    matches,             \* assign_one_to_one result [0]
    unmatched_arpa_ids,  \* assign_one_to_one result [1]
    greedy_matches,      \* _greedy_assignment result [0]
    result,              \* process_matching return value
    scoring_params,      \* MatchingController.scoring_params
    features,            \* feature_score argument
    score_p,             \* feature_score argument
    scores               \* feature_score result

\* the matcher's state
mvars == <<match_threshold, pc, polygon, ais_data, arpa_data, ais_df, arpa_df,
           candidates, accept_threshold, matches, unmatched_arpa_ids,
           greedy_matches, result, scoring_params, features, score_p, scores>>

VARIABLES
    is_active,           \* WebSocketListener.is_active
    is_running,          \* WebSocketListener.is_running
    ws_conn,             \* WebSocketListener._websocket_connection (0: None)
    listener_task,       \* WebSocketListener.listener_task (0: None)
    connected_clients,   \* WebSocketListener.connected_clients
    tasks,               \* the listen() tasks: position and locals of each
    running,             \* the task the event loop is running (0: none)
    conns,               \* the upstream connection of each listen() task
    nevents,             \* what the outside world has done so far
    up_sent,             \* whose connection got the envelope of a task's frame
    endpoints,           \* the websocket_endpoint() tasks, one per subscriber
    inbox                \* what each subscriber received

\* the listener's state
lvars == <<is_active, is_running, ws_conn, listener_task, connected_clients,
           tasks, running, conns, nevents, up_sent, endpoints, inbox>>

VARIABLES
    now,                 \* the wall clock, datetime.now()
    redis_up,            \* the Redis server can be reached
    redis_zset,          \* the sorted set at DataCache._redis_key, by score
    redis_expire_at,     \* when the server drops the key (0: no expiry set)
    redis_client,        \* DataCache._redis_client is not None
    redis_available,     \* DataCache._redis_available
    fallback_cache,      \* DataCache._fallback_cache
    total_messages,      \* DataCache._stats["total_messages"]
    lock,                \* DataCache._lock: the thread holding it (0: free)
    callers,             \* the threads calling the cache: position and locals
    added,               \* the items of the add calls completed since the last clear
    ncalls               \* calls of the cache, and Redis outages and recoveries, so far

\* the cache's state
cvars == <<now, redis_up, redis_zset, redis_expire_at, redis_client,
           redis_available, fallback_cache, total_messages, lock, callers, added,
           ncalls>>

vars == <<mvars, lvars, cvars>>

----------------------------------------------------------------------------
(* Numeric helpers *)

Abs(n) == IF n < 0 THEN -n ELSE n

Min(a, b) == IF a <= b THEN a ELSE b

RECURSIVE SqrtSearch(_, _, _)
SqrtSearch(n, lo, hi) ==
    IF lo >= hi THEN lo
    ELSE LET mid == (lo + hi + 1) \div 2
         IN  IF mid * mid <= n THEN SqrtSearch(n, mid, hi)
                               ELSE SqrtSearch(n, lo, mid - 1)

\* np.hypot at one-metre resolution
Hypot(dx, dy) == SqrtSearch(dx * dx + dy * dy, 0, 46340)

\* 1000 * exp(-q/10) for q = 0 .. 89; exp is 0 at this resolution beyond
ExpTable ==
    << 1000, 905, 819, 741, 670, 607, 549, 497, 449, 407, 368, 333, 301, 273, 247,
       223, 202, 183, 165, 150, 135, 122, 111, 100, 91, 82, 74, 67, 61, 55,
       50, 45, 41, 37, 33, 30, 27, 25, 22, 20, 18, 17, 15, 14, 12,
       11, 10, 9, 8, 7, 7, 6, 6, 5, 5, 4, 4, 3, 3, 3,
       2, 2, 2, 2, 2, 2, 1, 1, 1, 1, 1, 1, 1, 1, 1,
       1, 1, 0, 0, 0, 0, 0, 0, 0, 0, 0, 0, 0, 0, 0 >>

\* float(np.exp(-((delta / sigma) ** 2))), in thousandths
Gauss(delta, sigma) ==
    IF delta >= 3 * sigma THEN 0
    ELSE ExpTable[((10 * delta * delta) \div (sigma * sigma)) + 1]

----------------------------------------------------------------------------
(* src/src/matching.py *)

\* the difference not folded back at 180
angle_diff_deg_no_fold(a, b) ==
    Abs((a - b) % 360)

\* `d = abs((a - b) % 360.0); if d > 180.0: d = 360.0 - d`
angle_diff_deg(a, b) ==
    LET d == Abs((a - b) % 360)
    IN  IF d > 180 THEN 360 - d ELSE d

HasKey(r, k) == k \in DOMAIN r

extract_features(ais_row, arpa_row) ==
    LET dx == arpa_row.x - ais_row.x
        dy == arpa_row.y - ais_row.y
        feats == [d_m |-> Hypot(dx, dy),
                  dv_ms |-> Abs(arpa_row.speed_ms - ais_row.sog_ms),
                  dtheta_deg |-> angle_diff_deg(arpa_row.heading_deg, ais_row.cog_deg),
                  dt_s |-> Abs(arpa_row.timestamp_s - ais_row.timestamp_s)]
        rng == IF HasKey(arpa_row, "r_meas_m") /\ HasKey(ais_row, "r_site_m")
               THEN [range_error_m |-> Abs(arpa_row.r_meas_m - ais_row.r_site_m)]
               ELSE <<>>
        brg == IF HasKey(arpa_row, "brg_meas_deg") /\ HasKey(ais_row, "brg_site_deg")
               THEN [bearing_error_deg |->
                        angle_diff_deg(arpa_row.brg_meas_deg, ais_row.brg_site_deg)]
               ELSE <<>>
    IN  feats @@ rng @@ brg

feature_score(feats, p) ==
    LET s_pos == Gauss(feats.d_m, p.pos_sigma_m)
        s_spd == Gauss(feats.dv_ms, p.spd_sigma_ms)
        s_brg == Gauss(feats.dtheta_deg, p.hdg_sigma_deg)
        s_time == Gauss(feats.dt_s, p.time_sigma_s)
        s_range == IF HasKey(feats, "range_error_m") /\ p.range_sigma_m > 0
                   THEN Gauss(feats.range_error_m, p.range_sigma_m) ELSE 0
        s_brg_geo == IF HasKey(feats, "bearing_error_deg") /\ p.brg_geo_sigma_deg > 0
                     THEN Gauss(feats.bearing_error_deg, p.brg_geo_sigma_deg) ELSE 0
    IN  [s_pos |-> s_pos, s_spd |-> s_spd, s_brg |-> s_brg, s_time |-> s_time,
         s_range |-> s_range, s_brg_geo |-> s_brg_geo,
         s_total |-> p.w_pos * s_pos + p.w_spd * s_spd + p.w_brg * s_brg
                     + p.w_time * s_time + p.w_range * s_range
                     + p.w_brg_geo * s_brg_geo]

----------------------------------------------------------------------------
(* src/src/geo.py *)

\* a timestamp value is [kind, v]: a datetime object (v its epoch seconds), a
\* bare number (v), None, or a string pandas cannot parse
NoTime == [kind |-> "none", v |-> 0]
BadTime == [kind |-> "invalid", v |-> 0]
DateTime(t) == [kind |-> "datetime", v |-> t]

\* pd.to_datetime reads a bare number as nanoseconds since the epoch
parse_time_s(ts) ==
    CASE ts.kind = "none" -> 0
      [] ts.kind = "invalid" -> 0
      [] ts.kind = "datetime" -> ts.v
      [] OTHER -> ts.v \div 1000000000

\* float(knots) * 0.514444: tenths of a knot to mm/s
knots_to_mps(knots) == (knots * 514444) \div 10000

\* 100000 * cos(lat), second-order series (|lat| below about 15 degrees)
Cos1e5(lat) ==
    LET rad == ((lat \div 1000) * 1745) \div 1000
    IN  100000 - ((rad * rad) \div 200000)

M_PER_DEG_LAT == 111320

latlon_to_xy_m(lat, lon, lat0, lon0) ==
    LET m_lat == M_PER_DEG_LAT \div 10
        m_lon == (m_lat * Cos1e5(lat0)) \div 100000
    IN  [x |-> ((lon - lon0) * m_lon) \div 100000,
         y |-> ((lat - lat0) * m_lat) \div 100000]

pyproj_available == TRUE

make_transformer(lat0, lon0, method) ==
    IF method = "utm" /\ pyproj_available THEN "transformer" ELSE "None"

\* pyproj's UTM transform, reduced to its scale factor on the equirectangular
\* frame (the false easting and northing cancel in every difference)
utm_transform(lat, lon, lat0, lon0) ==
    LET p == latlon_to_xy_m(lat, lon, lat0, lon0)
    IN  [x |-> (p.x * 9996) \div 10000, y |-> (p.y * 9996) \div 10000]

to_xy(lat, lon, lat0, lon0, transformer, method) ==
    IF method = "utm" /\ transformer # "None"
    THEN utm_transform(lat, lon, lat0, lon0)
    ELSE latlon_to_xy_m(lat, lon, lat0, lon0)

----------------------------------------------------------------------------
(* app/controllers/matching_controller.py: helpers *)

\* self.transformer, built once in __init__
Transformer == make_transformer(SITE_LAT, SITE_LON, PROJECTION)

Truthy(seq) == Len(seq) > 0

RECURSIVE SeqMin(_, _)
SeqMin(s, k) ==
    IF k = 1 THEN s[1]
    ELSE LET m == SeqMin(s, k - 1) IN IF s[k] < m THEN s[k] ELSE m

RECURSIVE SeqMax(_, _)
SeqMax(s, k) ==
    IF k = 1 THEN s[1]
    ELSE LET m == SeqMax(s, k - 1) IN IF s[k] > m THEN s[k] ELSE m

\* the polygon branch of _calculate_bbox; without polygon the box is derived
\* from the site and the filter radius and is not used by the matching
_calculate_bbox(poly) ==
    IF Truthy(poly) /\ Len(poly[1]) > 0
    THEN LET coords == poly[1]
             lons == [k \in 1..Len(coords) |-> coords[k][1]]
             lats == [k \in 1..Len(coords) |-> coords[k][2]]
         IN  [min_lat |-> SeqMin(lats, Len(lats)), max_lat |-> SeqMax(lats, Len(lats)),
              min_lon |-> SeqMin(lons, Len(lons)), max_lon |-> SeqMax(lons, Len(lons))]
    ELSE [site |-> TRUE]

\* one iteration of the ray-casting loop: does edge (j -> i) toggle `inside`
EdgeCrosses_any_latitude(lon, lat, pi, pj) ==
    LET xi == pi[1]
        yi == pi[2]
        xj == pj[1]
        yj == pj[2]
    IN  /\ yj # yi
        /\ IF yj - yi > 0
           THEN (lon - xi) * (yj - yi) < (xj - xi) * (lat - yi)
           ELSE (lon - xi) * (yj - yi) > (xj - xi) * (lat - yi)

EdgeCrosses(lon, lat, pi, pj) ==
    LET xi == pi[1]
        yi == pi[2]
        xj == pj[1]
        yj == pj[2]
    IN  /\ (yi > lat) # (yj > lat)
        /\ IF yj - yi > 0
           THEN (lon - xi) * (yj - yi) < (xj - xi) * (lat - yi)
           ELSE (lon - xi) * (yj - yi) > (xj - xi) * (lat - yi)

RECURSIVE RayCast(_, _, _, _)
RayCast(lon, lat, coords, i) ==
    IF i = 0 THEN FALSE
    ELSE LET j == IF i = 1 THEN Len(coords) ELSE i - 1
             before == RayCast(lon, lat, coords, i - 1)
         IN  IF EdgeCrosses(lon, lat, coords[i], coords[j]) THEN ~before ELSE before

_point_in_polygon(lon, lat, poly) ==
    IF ~Truthy(poly) \/ Len(poly[1]) = 0 THEN TRUE
    ELSE RayCast(lon, lat, poly[1], Len(poly[1]))

\* the row loop of fetch_ais_data and fetch_arpa_data: which rows are kept
KeepRow(row, poly) ==
    /\ ~(row.lat = 0 /\ row.lon = 0)
    /\ ~(Truthy(poly) /\ ~_point_in_polygon(row.lon, row.lat, poly))

RECURSIVE SelectRows(_, _)
SelectRows(rows, poly) ==
    IF rows = <<>> THEN <<>>
    ELSE LET rest == SelectRows(Tail(rows), poly)
         IN  IF KeepRow(Head(rows), poly) THEN <<Head(rows)>> \o rest ELSE rest


\* the AIS half of _prepare_dataframes, one row
PrepareAisRow(r) ==
    LET p == to_xy(r.lat, r.lon, SITE_LAT, SITE_LON, Transformer, "utm")
    IN  [ais_id |-> r.mmsi, x |-> p.x, y |-> p.y,
         sog_ms |-> knots_to_mps(r.sog),
         cog_deg |-> IF r.heading # 0 THEN r.heading ELSE r.cog,
         timestamp_s |-> parse_time_s(r.ts)]

\* the ARPA half of _prepare_dataframes, one row
PrepareArpaRow(r) ==
    LET p == to_xy(r.lat, r.lon, SITE_LAT, SITE_LON, Transformer, "utm")
    IN  [arpa_id |-> r.target, x |-> p.x, y |-> p.y,
         speed_ms |-> knots_to_mps(r.speed),
         heading_deg |-> r.course,
         timestamp_s |-> parse_time_s(r.recv_at),
         r_meas_m |-> (r.distance_nm * 1852) \div 1000,
         brg_meas_deg |-> r.bearing]

_prepare_dataframes(ais, arpa) ==
    [ais_df |-> [k \in 1..Len(ais) |-> PrepareAisRow(ais[k])],
     arpa_df |-> [k \in 1..Len(arpa) |-> PrepareArpaRow(arpa[k])]]

----------------------------------------------------------------------------
(* src/src/matching.py: build_candidates, assign_one_to_one *)

\* the time gate left out
PassesGates_distance_only(feats, gating_distance_m, time_gate_s) ==
    feats.d_m <= gating_distance_m

\* `<` for `<=`
PassesGates_strict(feats, gating_distance_m, time_gate_s) ==
    feats.d_m < gating_distance_m /\ feats.dt_s < time_gate_s

\* the gate of build_candidates
PassesGates(feats, gating_distance_m, time_gate_s) ==
    feats.d_m <= gating_distance_m /\ feats.dt_s <= time_gate_s

\* the body of the double loop for ARPA row a and AIS row i
CandidateOf(a_row, i_row, gating_distance_m, time_gate_s, p) ==
    LET feats == extract_features(i_row, a_row)
    IN  IF PassesGates(feats, gating_distance_m, time_gate_s)
        THEN << [arpa_id |-> a_row.arpa_id, ais_id |-> i_row.ais_id,
                 s_total |-> feature_score(feats, p).s_total] @@ feats >>
        ELSE <<>>

\* the first k iterations of the double loop, ARPA rows outermost
RECURSIVE CandidateLoop(_, _, _, _, _, _)
CandidateLoop(aisdf, arpadf, gating_distance_m, time_gate_s, p, k) ==
    IF k = 0 THEN <<>>
    ELSE LET a == ((k - 1) \div Len(aisdf)) + 1
             i == ((k - 1) % Len(aisdf)) + 1
         IN  CandidateLoop(aisdf, arpadf, gating_distance_m, time_gate_s, p, k - 1)
             \o CandidateOf(arpadf[a], aisdf[i], gating_distance_m, time_gate_s, p)

build_candidates(aisdf, arpadf, gating_distance_m, time_gate_s, p) ==
    CandidateLoop(aisdf, arpadf, gating_distance_m, time_gate_s, p,
                  Len(arpadf) * Len(aisdf))

\* {id: i for i, id in enumerate(ids)}: the last position of the id
IdxMap(ids, id) == CHOOSE k \in 1..Len(ids) :
    ids[k] = id /\ \A l \in (k + 1)..Len(ids) : ids[l] # id

ArpaIds(arpadf) == [k \in 1..Len(arpadf) |-> arpadf[k].arpa_id]
AisIds(aisdf) == [k \in 1..Len(aisdf) |-> aisdf[k].ais_id]

\* the cell of the cost matrix candidate c is written to
CellOf(c, arpa_ids, ais_ids) ==
    <<IdxMap(arpa_ids, c.arpa_id), IdxMap(ais_ids, c.ais_id)>>

\* score_map after the loop over the candidates: a later candidate of the
\* same cell overwrites an earlier one
ScoreMap(cands, arpa_ids, ais_ids) ==
    LET cell == [k \in 1..Len(cands) |-> CellOf(cands[k], arpa_ids, ais_ids)]
    IN  [c \in {cell[k] : k \in 1..Len(cands)} |->
            cands[CHOOSE k \in 1..Len(cands) :
                    cell[k] = c /\ \A l \in (k + 1)..Len(cands) : cell[l] # c].s_total]

\* the score itself taken as the cost
CostMatrix_score_as_cost(score_map, n, m) ==
    [c \in (1..n) \X (1..m) |->
        IF c \in DOMAIN score_map THEN score_map[c] ELSE DEFAULT_COST]

\* the matrix started from zeros: a cell without candidate costs nothing
CostMatrix_zero_default(score_map, n, m) ==
    [c \in (1..n) \X (1..m) |->
        IF c \in DOMAIN score_map THEN ONE_TOTAL - score_map[c] ELSE 0]

\* cost after the loop: 1.5 everywhere, 1 - s_total where a candidate is
CostMatrix(score_map, n, m) ==
    [c \in (1..n) \X (1..m) |->
        IF c \in DOMAIN score_map THEN ONE_TOTAL - score_map[c] ELSE DEFAULT_COST]

\* scipy's contract: an assignment pairs min(n, m) rows and columns one to one
Injective(f) == \A a, b \in DOMAIN f : a # b => f[a] # f[b]

FullAssignments(n, m) ==
    IF n <= m
    THEN {{<<i, f[i]>> : i \in 1..n} : f \in {g \in [1..n -> 1..m] : Injective(g)}}
    ELSE {{<<f[j], j>> : j \in 1..m} : f \in {g \in [1..m -> 1..n] : Injective(g)}}

RECURSIVE SumOver(_, _)
SumOver(f, cells) ==
    IF cells = {} THEN 0
    ELSE LET c == CHOOSE x \in cells : TRUE
         IN  f[c] + SumOver(f, cells \ {c})

\* every row takes its own cheapest column, rows not told apart
linear_sum_assignment_per_row(cost, n, m) ==
    {{<<i, f[i]>> : i \in 1..n} :
        f \in {g \in [1..n -> 1..m] :
                \A i \in 1..n : \A j \in 1..m : cost[<<i, g[i]>>] <= cost[<<i, j>>]}}

\* the results linear_sum_assignment may return: every assignment of least
\* total cost (which one scipy picks among equals is not specified)
linear_sum_assignment(cost, n, m) ==
    LET all == FullAssignments(n, m)
        total == [a \in all |-> SumOver(cost, a)]
    IN  {a \in all : \A b \in all : total[a] <= total[b]}

\* the threshold test left out
Accepts_any_score(score_map, cell, threshold) ==
    cell \in DOMAIN score_map

\* `>` for `>=`
Accepts_strict(score_map, cell, threshold) ==
    cell \in DOMAIN score_map /\ score_map[cell] > threshold

\* `s is not None and s >= accept_threshold`
Accepts(score_map, cell, threshold) ==
    cell \in DOMAIN score_map /\ score_map[cell] >= threshold

\* the loop over zip(row_ind, col_ind), rows 1..i of the cost matrix
RECURSIVE AcceptedLoop(_, _, _, _, _, _)
AcceptedLoop(score_map, arpa_ids, ais_ids, assignment, threshold, i) ==
    IF i = 0 THEN <<>>
    ELSE LET before == AcceptedLoop(score_map, arpa_ids, ais_ids, assignment,
                                    threshold, i - 1)
             row == {c \in assignment : c[1] = i}
         IN  IF row = {} THEN before
             ELSE LET cell == CHOOSE c \in row : TRUE
                  IN  IF Accepts(score_map, cell, threshold)
                      THEN before \o << [arpa_id |-> arpa_ids[cell[1]],
                                         ais_id |-> ais_ids[cell[2]],
                                         score |-> score_map[cell]] >>
                      ELSE before

SeqToSet(s) == {s[k] : k \in 1..Len(s)}

\* [x for x in s if x not in drop]
RECURSIVE Without(_, _)
Without(s, drop) ==
    IF s = <<>> THEN <<>>
    ELSE IF Head(s) \in drop THEN Without(Tail(s), drop)
         ELSE <<Head(s)>> \o Without(Tail(s), drop)

\* assigned_arpa never filled
AssignWith_no_assigned(score_map, arpa_ids, ais_ids, threshold, assignment) ==
    [accepted |-> AcceptedLoop(score_map, arpa_ids, ais_ids, assignment, threshold,
                               Len(arpa_ids)),
     unmatched_arpa |-> arpa_ids]

\* assign_one_to_one after linear_sum_assignment returned `assignment`
AssignWith(score_map, arpa_ids, ais_ids, threshold, assignment) ==
    LET accepted == AcceptedLoop(score_map, arpa_ids, ais_ids, assignment, threshold,
                                 Len(arpa_ids))
        assigned_arpa == {accepted[k].arpa_id : k \in 1..Len(accepted)}
    IN  [accepted |-> accepted, unmatched_arpa |-> Without(arpa_ids, assigned_arpa)]

\* every (accepted, unmatched_arpa) assign_one_to_one may return
assign_one_to_one(cands, arpadf, aisdf, threshold) ==
    IF Len(cands) = 0
    THEN {[accepted |-> <<>>, unmatched_arpa |-> ArpaIds(arpadf)]}
    ELSE LET arpa_ids == ArpaIds(arpadf)
             ais_ids == AisIds(aisdf)
             score_map == ScoreMap(cands, arpa_ids, ais_ids)
             cost == CostMatrix(score_map, Len(arpa_ids), Len(ais_ids))
         IN  {AssignWith(score_map, arpa_ids, ais_ids, threshold, a) :
                a \in linear_sum_assignment(cost, Len(arpa_ids), Len(ais_ids))}

----------------------------------------------------------------------------
(* src/src_old/matching.py: _greedy_assignment *)

\* sorted(candidates, key=s_total, reverse=True): stable, equal scores keep
\* their order
RECURSIVE InsertDesc(_, _)
InsertDesc(sorted, c) ==
    IF sorted = <<>> THEN <<c>>
    ELSE IF Head(sorted).s_total >= c.s_total
         THEN <<Head(sorted)>> \o InsertDesc(Tail(sorted), c)
         ELSE <<c>> \o sorted

RECURSIVE SortDesc(_, _)
SortDesc(cands, k) ==
    IF k = 0 THEN <<>> ELSE InsertDesc(SortDesc(cands, k - 1), cands[k])

RECURSIVE GreedyLoop(_, _, _)
GreedyLoop(sorted, threshold, k) ==
    IF k = 0 THEN <<>>
    ELSE LET before == GreedyLoop(sorted, threshold, k - 1)
             c == sorted[k]
         IN  IF c.s_total < threshold THEN before
             ELSE IF \E l \in 1..Len(before) :
                        before[l].arpa_id = c.arpa_id \/ before[l].ais_id = c.ais_id
                  THEN before
                  ELSE before \o <<c>>

_greedy_assignment(cands, threshold) ==
    GreedyLoop(SortDesc(cands, Len(cands)), threshold, Len(cands))

----------------------------------------------------------------------------
(* app/controllers/matching_controller.py: process_matching *)

\* candidate.get(key, default)
Get(c, key, default) == IF HasKey(c, key) THEN c[key] ELSE default

\* candidate_lookup.get((arpa_id, ais_id), {}): the last candidate of the pair
CandidateLookup(cands, arpa_id, ais_id) ==
    LET w == {k \in 1..Len(cands) :
                cands[k].arpa_id = arpa_id /\ cands[k].ais_id = ais_id}
    IN  IF w = {} THEN <<>> ELSE cands[CHOOSE k \in w : \A l \in w : l <= k]

\* next((r for r in data if str(r[key]) == str(id)), None)
FirstRecord(data, key, id) ==
    data[CHOOSE k \in 1..Len(data) :
            data[k][key] = id /\ \A l \in 1..(k - 1) : data[l][key] # id]

MatchedPair(m, cands, ais, arpa) ==
    LET c == CandidateLookup(cands, m.arpa_id, m.ais_id)
    IN  [arpa_id |-> m.arpa_id, ais_id |-> m.ais_id, score |-> m.score,
         distance_m |-> Get(c, "d_m", 0),
         speed_diff_ms |-> Get(c, "dv_ms", 0),
         heading_diff_deg |-> Get(c, "dtheta_deg", 0),
         time_diff_s |-> Get(c, "dt_s", 0),
         ais |-> FirstRecord(ais, "mmsi", m.ais_id),
         arpa |-> FirstRecord(arpa, "target", m.arpa_id),
         features |-> [d_m |-> Get(c, "d_m", 0), dv_ms |-> Get(c, "dv_ms", 0),
                       dtheta_deg |-> Get(c, "dtheta_deg", 0),
                       dt_s |-> Get(c, "dt_s", 0),
                       s_pos |-> Get(c, "s_pos", 0), s_spd |-> Get(c, "s_spd", 0),
                       s_hdg |-> Get(c, "s_hdg", 0), s_time |-> Get(c, "s_time", 0),
                       s_range |-> Get(c, "s_range", 1000),
                       s_brg |-> Get(c, "s_brg", 1000)]]

\* [r for r in data if str(r[key]) in ids]
RECURSIVE RecordsIn(_, _, _)
RecordsIn(data, key, ids) ==
    IF data = <<>> THEN <<>>
    ELSE IF Head(data)[key] \in ids
         THEN <<Head(data)>> \o RecordsIn(Tail(data), key, ids)
         ELSE RecordsIn(Tail(data), key, ids)

GeoFeatures(pair) ==
    << [type |-> "Feature",
        geometry |-> [type |-> "Point",
                      coordinates |-> <<pair.ais.lon, pair.ais.lat>>],
        properties |-> [type |-> "ais", mmsi |-> pair.ais.mmsi, score |-> pair.score]],
       [type |-> "Feature",
        geometry |-> [type |-> "Point",
                      coordinates |-> <<pair.arpa.lon, pair.arpa.lat>>],
        properties |-> [type |-> "arpa", target |-> pair.arpa.target,
                        score |-> pair.score]],
       [type |-> "Feature",
        geometry |-> [type |-> "LineString",
                      coordinates |-> << <<pair.ais.lon, pair.ais.lat>>,
                                         <<pair.arpa.lon, pair.arpa.lat>> >>],
        properties |-> [type |-> "match", ais_id |-> pair.ais.mmsi,
                        arpa_id |-> pair.arpa.target, score |-> pair.score,
                        distance_m |-> pair.distance_m]] >>

RECURSIVE GeoLoop(_, _)
GeoLoop(pairs, k) ==
    IF k = 0 THEN <<>> ELSE GeoLoop(pairs, k - 1) \o GeoFeatures(pairs[k])

build_geojson(pairs) ==
    [type |-> "FeatureCollection", features |-> GeoLoop(pairs, Len(pairs))]

Parameters(poly, threshold) ==
    [gating_distance_m |-> GATING_DISTANCE_M, time_gate_s |-> TIME_GATE_S,
     match_threshold |-> threshold, polygon_provided |-> Truthy(poly),
     bbox |-> _calculate_bbox(poly)]

\* the return at `if not ais_data or not arpa_data`
InsufficientResult(ais, arpa) ==
    [success |-> TRUE, message |-> "Insufficient data for matching",
     data |-> [matched_pairs |-> <<>>, unmatched_ais |-> <<>>,
               unmatched_arpa |-> <<>>,
               statistics |-> [total_ais |-> Len(ais), total_arpa |-> Len(arpa),
                               matched |-> 0, unmatched_ais |-> Len(ais),
                               unmatched_arpa |-> Len(arpa)]]]

\* the return at `if len(candidates) == 0`
NoCandidatesResult(ais, arpa, poly, threshold) ==
    [success |-> TRUE,
     message |-> "No matching candidates found within gating parameters",
     data |-> [matched_pairs |-> <<>>, unmatched_ais |-> ais,
               unmatched_arpa |-> arpa,
               statistics |-> [total_ais |-> Len(ais), total_arpa |-> Len(arpa),
                               matched |-> 0, unmatched_ais |-> Len(ais),
                               unmatched_arpa |-> Len(arpa),
                               candidates_generated |-> 0],
               parameters |-> Parameters(poly, threshold)]]

\* the final return, after assign_one_to_one returned (ms, unmatched_ids)
MatchedResult(ais, arpa, aisdf, cands, ms, unmatched_ids, poly, threshold) ==
    LET matched_ais_ids == {ms[k].ais_id : k \in 1..Len(ms)}
        unmatched_ais_ids == SeqToSet(AisIds(aisdf)) \ matched_ais_ids
        pairs == [k \in 1..Len(ms) |-> MatchedPair(ms[k], cands, ais, arpa)]
    IN  [success |-> TRUE, message |-> "Matching completed successfully",
         data |-> [matched_pairs |-> pairs,
                   unmatched_ais |-> RecordsIn(ais, "mmsi", unmatched_ais_ids),
                   unmatched_arpa |-> RecordsIn(arpa, "target", SeqToSet(unmatched_ids)),
                   statistics |-> [total_ais |-> Len(ais), total_arpa |-> Len(arpa),
                                   matched |-> Len(ms),
                                   unmatched_ais |-> Cardinality(unmatched_ais_ids),
                                   unmatched_arpa |-> Len(unmatched_ids),
                                   candidates_generated |-> Len(cands)],
                   parameters |-> Parameters(poly, threshold),
                   geojson |-> build_geojson(pairs)]]


----------------------------------------------------------------------------
(* The data store: rows css.ais_current and css.arpa_current may hold *)

T0 == 1700000000

AisRow(mmsi, lat, lon, sog, cog, heading, ts) ==
    [mmsi |-> mmsi, lat |-> lat, lon |-> lon, sog |-> sog, cog |-> cog,
     heading |-> heading, ts |-> ts]

ArpaRow(target, lat, lon, speed, course, recv_at) ==
    [target |-> target, lat |-> lat, lon |-> lon, speed |-> speed,
     course |-> course, distance_nm |-> 50, bearing |-> 30, recv_at |-> recv_at]

AisTable ==
    { AisRow("M1", -1280000, 116810000, 105, 45, 0, DateTime(T0)),
      \* 300 m east of M1
      AisRow("M2", -1280000, 116812696, 105, 0, 50, DateTime(T0)),
      \* no position fix
      AisRow("M3", 0, 0, 105, 45, 0, DateTime(T0)),
      \* no timestamp
      AisRow("M4", -1280000, 116810000, 105, 45, 0, NoTime) }

ArpaTable ==
    { \* 15 m from M1, one second later
      ArpaRow("T1", -1280100, 116810100, 104, 44, DateTime(T0 + 1)),
      \* 8000 m north of M1: on the distance gate
      ArpaRow("T2", -1208141, 116810000, 105, 45, DateTime(T0)),
      \* on M1, 1800 s later: on the time gate
      ArpaRow("T3", -1280000, 116810000, 105, 45, DateTime(T0 + 1800)),
      \* 8001 m north of M1
      ArpaRow("T4", -1208132, 116810000, 105, 45, DateTime(T0)),
      \* on M1, 1801 s later
      ArpaRow("T5", -1280000, 116810000, 105, 45, DateTime(T0 + 1801)),
      \* unparsable timestamp
      ArpaRow("T6", -1280000, 116810000, 105, 45, BadTime),
      \* no position fix
      ArpaRow("T7", 0, 0, 105, 45, DateTime(T0)) }

\* visible_sea_area rings a trigger may carry: M1, T1, T3 inside, M2 outside
SamplePolygon ==
    << << <<116805000, -1285000>>, <<116812000, -1285000>>,
          <<116813000, -1275000>>, <<116805000, -1275000>>,
          <<116805000, -1285000>> >> >>

PolygonChoices == {<<>>, SamplePolygon}

SeqsUpTo(S, n) == UNION {[1..k -> S] : k \in 0..n}

\* what clickhouse_service.execute_query may hand back
AisQueryResults == SeqsUpTo(AisTable, MaxAis)
ArpaQueryResults == SeqsUpTo(ArpaTable, MaxArpa)

----------------------------------------------------------------------------
(* The matching cycle *)

NoResult == <<>>
NoFeatures == <<>>

----------------------------------------------------------------------------
(* app/services/cache.py: DataCache, its two stores and the Redis commands *)

\* the threads that call the cache
CacheThreads == {1, 2}

\* a cache item: its stamp, and its data, here the stamp again as each add
\* call has data of its own
Item(timestamp) == [timestamp |-> timestamp, data |-> timestamp]
NoItem == Item(0)

\* the rank of sorted-set members: by score, then by member
Before(x, y) ==
    x.timestamp < y.timestamp \/ (x.timestamp = y.timestamp /\ x.data < y.data)

\* ZADD key score member
zadd(zset, item) ==
    SelectSeq(zset, LAMBDA x : Before(x, item)) \o <<item>>
        \o SelectSeq(zset, LAMBDA x : Before(item, x))

\* ZREMRANGEBYRANK key 0 stop
zremrangebyrank(zset, stop) == SubSeq(zset, stop + 2, Len(zset))

Reverse(s) == [k \in 1..Len(s) |-> s[Len(s) + 1 - k]]

\* ZREVRANGE key 0 stop; a negative stop counts from the end
zrevrange(zset, stop) ==
    LET last == IF stop < 0 THEN Len(zset) + stop ELSE stop
    IN  SubSeq(Reverse(zset), 1, IF last + 1 > Len(zset) THEN Len(zset) ELSE last + 1)

\* ZRANGEBYSCORE key min max
zrangebyscore(zset, min_score, max_score) ==
    SelectSeq(zset, LAMBDA x : min_score <= x.timestamp /\ x.timestamp <= max_score)

\* the key as the server holds it at time t: gone once its expiry is reached
KeyAt(zset, expire_at, t) ==
    IF expire_at # 0 /\ t >= expire_at
    THEN [zset |-> <<>>, expire_at |-> 0]
    ELSE [zset |-> zset, expire_at |-> expire_at]

\* deque(maxlen = max_size).append
deque_append(cache, item, maxlen) ==
    IF Len(cache) >= maxlen THEN Append(Tail(cache), item) ELSE Append(cache, item)

\* seq[-limit:]
LastSlice(seq, limit) ==
    IF limit = 0 \/ limit >= Len(seq) THEN seq
    ELSE SubSeq(seq, Len(seq) - limit + 1, Len(seq))

\* `now - item["timestamp"] <= self.ttl`
Fresh(item, t) == t - item.timestamp <= CacheTtl

\* _check_redis, with _init_redis when the ping fails or Redis was not
\* available: whether Redis is to be used, and the two attributes afterwards
check_redis_no_reconnect(up, available, client) ==
    [ok |-> available /\ client /\ up,
     available |-> available /\ (~client \/ up),
     client |-> client]

check_redis(up, available, client) ==
    IF available /\ ~client
    THEN [ok |-> FALSE, available |-> available, client |-> client]
    ELSE [ok |-> up, available |-> up, client |-> up]

\* get_recent on the Redis store, and on the in-memory store
get_recent_redis(zset, limit, t) ==
    SelectSeq(zrevrange(zset, limit - 1), LAMBDA x : Fresh(x, t))

get_recent_memory(cache, limit, t) ==
    LastSlice(SelectSeq(cache, LAMBDA x : Fresh(x, t)), limit)

\* the sorted set as the server holds it now
Key == KeyAt(redis_zset, redis_expire_at, now)

\* get_recent(limit) called while no other thread is in the cache
get_recent(limit) ==
    IF check_redis(redis_up, redis_available, redis_client).ok /\ redis_up
    THEN get_recent_redis(Key.zset, limit, now)
    ELSE get_recent_memory(fallback_cache, limit, now)

\* what the health check of such a call leaves behind
checked_cache ==
    /\ redis_available' = check_redis(redis_up, redis_available, redis_client).available
    /\ redis_client' = check_redis(redis_up, redis_available, redis_client).client
    /\ UNCHANGED <<now, redis_up, redis_zset, redis_expire_at, fallback_cache,
                   total_messages, lock, callers, added, ncalls>>

\* DataCache(max_size, ttl_seconds), with Redis reachable or not
DataCache_init(up) ==
    /\ now = 0
    /\ redis_up = up
    /\ redis_zset = <<>>
    /\ redis_expire_at = 0
    /\ redis_client = up
    /\ redis_available = up
    /\ fallback_cache = <<>>
    /\ total_messages = 0
    /\ lock = 0
    /\ callers = [t \in CacheThreads |->
                    [at |-> "idle", op |-> "", limit |-> 0, range |-> <<0, 0>>,
                     item |-> NoItem, seen |-> 0, result |-> <<>>, backend |-> "",
                     current_size |-> 0, total |-> 0]]
    /\ added = <<>>
    /\ ncalls = 0

----------------------------------------------------------------------------
(* app/services/websocket.py, app/api/routes.py: the listener as constructed *)

\* settings.WEBSOCKET_AUTO_START, the default
WEBSOCKET_AUTO_START == TRUE

\* the listen() task lifespan creates, and the one start_listener keeps in
\* self.listener_task (a new one only once that one is done)
LifespanTask == 1
StartedTask == 2
TaskIds == {LifespanTask, StartedTask}
ClientIds == 1..MaxClients

\* an upstream frame: how it came over the wire and what json.loads makes of it
Message(wire, json, type, feats) ==
    [wire |-> wire, json |-> json, type |-> type, features |-> feats]

NoMessage == Message("none", "none", "", <<>>)
NoFrame == [n |-> 0, message |-> NoMessage]

\* the locals of a listen() task that is not processing a frame; survived
\* tells that a frame which started no cycle, or whose cycle failed, has
\* been through process_message on the task's present connection, and
\* stayed who has been a subscriber for the whole of the task's broadcast
IdleLocals ==
    [conn |-> 0, frame |-> NoFrame, polygon |-> <<>>,
     success |-> FALSE, query_failed |-> FALSE,
     idx |-> 0, disconnected_clients |-> <<>>, stayed |-> {}, survived |-> FALSE]

ListenTask(at, locals) == [at |-> at] @@ locals

\* WebSocketListener.__init__ and the lifespan's create_task(listen())
WebSocketListener_init(auto_start) ==
    /\ is_active = auto_start
    /\ is_running = FALSE
    /\ ws_conn = 0
    /\ listener_task = 0
    /\ connected_clients = <<>>
    /\ tasks = [t \in TaskIds |->
                  ListenTask(IF t = LifespanTask THEN "created" ELSE "none",
                             IdleLocals)]
    /\ running = 0
    /\ conns = [t \in TaskIds |-> "none"]
    /\ nevents = 0
    /\ up_sent = [t \in TaskIds |-> 0]
    /\ endpoints = [c \in ClientIds |-> "idle"]
    /\ inbox = [c \in ClientIds |-> <<>>]

Init ==
    /\ WebSocketListener_init(WEBSOCKET_AUTO_START)
    /\ DataCache_init(FALSE)
    /\ match_threshold \in ThresholdChoices
    /\ pc = "idle"
    /\ polygon = <<>>
    /\ ais_data = <<>>
    /\ arpa_data = <<>>
    /\ ais_df = <<>>
    /\ arpa_df = <<>>
    /\ candidates = <<>>
    /\ accept_threshold = match_threshold
    /\ matches = <<>>
    /\ unmatched_arpa_ids = <<>>
    /\ greedy_matches = <<>>
    /\ result = NoResult
    /\ scoring_params = ControllerScoringParams
    /\ features = NoFeatures
    /\ score_p = NoFeatures
    /\ scores = NoFeatures

\* process_matching is called with a polygon (or none)
process_matching ==
    /\ UNCHANGED <<lvars, cvars>>
    /\ pc = "idle"
    /\ \E poly \in PolygonChoices : polygon' = poly
    /\ pc' = "fetch_ais"
    /\ UNCHANGED <<match_threshold, ais_data, arpa_data, ais_df, arpa_df,
                   candidates, accept_threshold, matches, unmatched_arpa_ids,
                   greedy_matches, result, scoring_params, features, score_p, scores>>

\* fetch_ais_data: the query returns rows, or fails and [] is returned
fetch_ais_data ==
    /\ UNCHANGED <<lvars, cvars>>
    /\ pc = "fetch_ais"
    /\ \/ \E rows \in AisQueryResults : ais_data' = SelectRows(rows, polygon)
       \/ ais_data' = <<>>
    /\ pc' = "fetch_arpa"
    /\ UNCHANGED <<match_threshold, polygon, arpa_data, ais_df, arpa_df,
                   candidates, accept_threshold, matches, unmatched_arpa_ids,
                   greedy_matches, result, scoring_params, features, score_p, scores>>

fetch_arpa_data ==
    /\ UNCHANGED <<lvars, cvars>>
    /\ pc = "fetch_arpa"
    /\ \/ \E rows \in ArpaQueryResults : arpa_data' = SelectRows(rows, polygon)
       \/ arpa_data' = <<>>
    /\ pc' = "match"
    /\ UNCHANGED <<match_threshold, polygon, ais_data, ais_df, arpa_df,
                   candidates, accept_threshold, matches, unmatched_arpa_ids,
                   greedy_matches, result, scoring_params, features, score_p, scores>>

\* process_matching from `if not ais_data or not arpa_data` to its return
match_and_assemble ==
    /\ UNCHANGED <<lvars, cvars>>
    /\ pc = "match"
    /\ pc' = "done"
    /\ IF ~Truthy(ais_data) \/ ~Truthy(arpa_data)
       THEN /\ result' = InsufficientResult(ais_data, arpa_data)
            /\ UNCHANGED <<ais_df, arpa_df, candidates, matches, unmatched_arpa_ids>>
       ELSE LET dfs == _prepare_dataframes(ais_data, arpa_data)
                cands == build_candidates(dfs.ais_df, dfs.arpa_df, GATING_DISTANCE_M,
                                          TIME_GATE_S, scoring_params)
            IN  /\ ais_df' = dfs.ais_df
                /\ arpa_df' = dfs.arpa_df
                /\ candidates' = cands
                /\ IF Len(cands) = 0
                   THEN /\ result' = NoCandidatesResult(ais_data, arpa_data, polygon,
                                                        match_threshold)
                        /\ UNCHANGED <<matches, unmatched_arpa_ids>>
                   ELSE \E r \in assign_one_to_one(cands, dfs.arpa_df, dfs.ais_df,
                                                   match_threshold) :
                        /\ matches' = r.accepted
                        /\ unmatched_arpa_ids' = r.unmatched_arpa
                        /\ result' = MatchedResult(ais_data, arpa_data, dfs.ais_df,
                                                   cands, r.accepted, r.unmatched_arpa,
                                                   polygon, match_threshold)
    /\ UNCHANGED <<match_threshold, polygon, ais_data, arpa_data, accept_threshold,
                   greedy_matches, scoring_params, features, score_p, scores>>

\* the caller takes the result; nothing of the cycle is kept
return_result ==
    /\ UNCHANGED <<lvars, cvars>>
    /\ pc = "done"
    /\ pc' = "idle"
    /\ polygon' = <<>>
    /\ ais_data' = <<>>
    /\ arpa_data' = <<>>
    /\ ais_df' = <<>>
    /\ arpa_df' = <<>>
    /\ candidates' = <<>>
    /\ matches' = <<>>
    /\ unmatched_arpa_ids' = <<>>
    /\ result' = NoResult
    /\ UNCHANGED <<match_threshold, accept_threshold, greedy_matches,
                   scoring_params, features, score_p, scores>>


----------------------------------------------------------------------------
(* assign_one_to_one and _greedy_assignment on arbitrary candidate lists *)

AssignArpaIds == <<"T1", "T2", "T3">>
AssignAisIds == <<"M1", "M2", "M3">>
ScoreLevels == {300000, 900000}
AssignThresholds == {300000, 600000}

\* candidates for the cells of `cells` with scores sc, in build_candidates order
RECURSIVE CandidateList(_, _, _, _)
CandidateList(cells, sc, m, k) ==
    IF k = 0 THEN <<>>
    ELSE LET i == ((k - 1) \div m) + 1
             j == ((k - 1) % m) + 1
         IN  CandidateList(cells, sc, m, k - 1)
             \o (IF <<i, j>> \in cells
                 THEN << [arpa_id |-> AssignArpaIds[i], ais_id |-> AssignAisIds[j],
                          s_total |-> sc[<<i, j>>]] >>
                 ELSE <<>>)

CandidateLists(n, m) ==
    UNION {{CandidateList(cells, sc, m, n * m) : sc \in [cells -> ScoreLevels]} :
            cells \in {c \in SUBSET ((1..n) \X (1..m)) : Cardinality(c) <= MaxCands}}

assign_call ==
    /\ UNCHANGED <<lvars, cvars>>
    /\ pc = "idle"
    /\ \E n \in 1..Len(AssignArpaIds), m \in 1..Len(AssignAisIds),
          threshold \in AssignThresholds :
       \E cands \in CandidateLists(n, m) :
          LET arpadf == [k \in 1..n |-> [arpa_id |-> AssignArpaIds[k]]]
              aisdf == [k \in 1..m |-> [ais_id |-> AssignAisIds[k]]]
          IN  /\ arpa_df' = arpadf
              /\ ais_df' = aisdf
              /\ candidates' = cands
              /\ accept_threshold' = threshold
              /\ \E r \in assign_one_to_one(cands, arpadf, aisdf, threshold) :
                    /\ matches' = r.accepted
                    /\ unmatched_arpa_ids' = r.unmatched_arpa
              /\ greedy_matches' = _greedy_assignment(cands, threshold)
    /\ pc' = "assigned"
    /\ UNCHANGED <<match_threshold, polygon, ais_data, arpa_data, result,
                   scoring_params, features, score_p, scores>>

assign_return ==
    /\ UNCHANGED <<lvars, cvars>>
    /\ pc = "assigned"
    /\ pc' = "idle"
    /\ arpa_df' = <<>>
    /\ ais_df' = <<>>
    /\ candidates' = <<>>
    /\ accept_threshold' = match_threshold
    /\ matches' = <<>>
    /\ unmatched_arpa_ids' = <<>>
    /\ greedy_matches' = <<>>
    /\ UNCHANGED <<match_threshold, polygon, ais_data, arpa_data, result,
                   scoring_params, features, score_p, scores>>

\* the tables of test_edge_cases: pd.DataFrame() has no rows and no columns;
\* a table emptied by a filter keeps its columns
NoColumns == {}
EmptyFrames == {NoColumns, {"arpa_id", "ais_id"}}

\* df[name]: a KeyError when the table has no such column
HasColumn(columns, name) == name \in columns

\* assign_one_to_one on tables without rows: both its branches read
\* arpa_df["arpa_id"] first
assign_one_to_one_empty(cands, arpa_columns, ais_columns, threshold) ==
    IF HasColumn(arpa_columns, "arpa_id")
         /\ (Len(cands) = 0 \/ HasColumn(ais_columns, "ais_id"))
    THEN [raised |-> FALSE, results |-> assign_one_to_one(cands, <<>>, <<>>, threshold)]
    ELSE [raised |-> TRUE, results |-> {}]

\* build_candidates, then assign_one_to_one, on empty tables
empty_call ==
    /\ UNCHANGED <<lvars, cvars>>
    /\ pc = "idle"
    /\ \E columns \in EmptyFrames, threshold \in AssignThresholds :
          LET cands == build_candidates(<<>>, <<>>, GATING_DISTANCE_M, TIME_GATE_S,
                                        DefaultScoringParams)
              call == assign_one_to_one_empty(cands, columns, columns, threshold)
          IN  /\ arpa_df' = <<>>
              /\ ais_df' = <<>>
              /\ candidates' = cands
              /\ accept_threshold' = threshold
              /\ greedy_matches' = <<>>
              /\ IF call.raised
                 THEN /\ pc' = "raised"
                      /\ UNCHANGED <<matches, unmatched_arpa_ids>>
                 ELSE /\ pc' = "assigned"
                      /\ \E r \in call.results :
                            /\ matches' = r.accepted
                            /\ unmatched_arpa_ids' = r.unmatched_arpa
    /\ UNCHANGED <<match_threshold, polygon, ais_data, arpa_data, result,
                   scoring_params, features, score_p, scores>>

\* the exception reaches the caller
raised_return ==
    /\ UNCHANGED <<lvars, cvars>>
    /\ pc = "raised"
    /\ pc' = "idle"
    /\ accept_threshold' = match_threshold
    /\ UNCHANGED <<match_threshold, polygon, ais_data, arpa_data, ais_df, arpa_df,
                   candidates, matches, unmatched_arpa_ids, greedy_matches, result,
                   scoring_params, features, score_p, scores>>

----------------------------------------------------------------------------
(* the sanitize step of fetch_ais_data and fetch_arpa_data on arbitrary
   rings and points *)

\* coordinates of a small grid; (0, 0) is the position of a record without fix
GridCoords == 0..2
GridPoints == GridCoords \X GridCoords

\* outer rings of up to MaxRing points, closed or not
Rings == UNION {[1..n -> GridPoints] : n \in 0..MaxRing}

sanitize_call ==
    /\ UNCHANGED <<lvars, cvars>>
    /\ pc = "idle"
    /\ \E ring \in Rings, point \in GridPoints :
          LET poly == <<ring>>
              lon == point[1]
              lat == point[2]
          IN  /\ polygon' = poly
              /\ ais_data' = SelectRows(
                     <<AisRow("M1", lat, lon, 105, 45, 0, DateTime(T0))>>, poly)
              /\ arpa_data' = SelectRows(
                     <<ArpaRow("T1", lat, lon, 105, 45, DateTime(T0))>>, poly)
    /\ pc' = "sanitized"
    /\ UNCHANGED <<match_threshold, ais_df, arpa_df, candidates, accept_threshold,
                   matches, unmatched_arpa_ids, greedy_matches, result,
                   scoring_params, features, score_p, scores>>

sanitize_return ==
    /\ UNCHANGED <<lvars, cvars>>
    /\ pc = "sanitized"
    /\ pc' = "idle"
    /\ polygon' = <<>>
    /\ ais_data' = <<>>
    /\ arpa_data' = <<>>
    /\ UNCHANGED <<match_threshold, ais_df, arpa_df, candidates, accept_threshold,
                   matches, unmatched_arpa_ids, greedy_matches, result,
                   scoring_params, features, score_p, scores>>

----------------------------------------------------------------------------
(* feature_score on arbitrary feature vectors *)

BaseFeatures ==
    [d_m : {0, 250, 500, 2000}, dv_ms : {0, 1500, 9000},
     dtheta_deg : {0, 40, 180}, dt_s : {0, 60, 1800}]

RangeFeatures == {<<>>} \cup [range_error_m : {0, 1500}]
BearingFeatures == {<<>>} \cup [bearing_error_deg : {0, 15}]

FeatureVectors ==
    {b @@ r @@ g : b \in BaseFeatures, r \in RangeFeatures, g \in BearingFeatures}

ScoringParamsChoices == {ControllerScoringParams, ListenerScoringParams}

score_call ==
    /\ UNCHANGED <<lvars, cvars>>
    /\ pc = "idle"
    /\ \E feats \in FeatureVectors, p \in ScoringParamsChoices :
          /\ features' = feats
          /\ score_p' = p
          /\ scores' = feature_score(feats, p)
    /\ pc' = "scored"
    /\ UNCHANGED <<match_threshold, polygon, ais_data, arpa_data, ais_df, arpa_df,
                   candidates, accept_threshold, matches, unmatched_arpa_ids,
                   greedy_matches, result, scoring_params>>

score_return ==
    /\ UNCHANGED <<lvars, cvars>>
    /\ pc = "scored"
    /\ pc' = "idle"
    /\ features' = NoFeatures
    /\ score_p' = NoFeatures
    /\ scores' = NoFeatures
    /\ UNCHANGED <<match_threshold, polygon, ais_data, arpa_data, ais_df, arpa_df,
                   candidates, accept_threshold, matches, unmatched_arpa_ids,
                   greedy_matches, result, scoring_params>>

----------------------------------------------------------------------------
(* parse_time_s and angle_diff_deg called on their own, as test_matching.py
   calls them: on the `ts` and `recv_at` columns, and on two angles *)

\* a bare number handed to parse_time_s, as in 'ts': [1700000000, ...]
EpochNumber(n) == [kind |-> "number", v |-> n]

TimeInputs ==
    {NoTime, BadTime}
        \cup {EpochNumber(n) : n \in {T0, T0 + 1, T0 + 60, T0 + 1800}}

parse_call ==
    /\ UNCHANGED <<lvars, cvars>>
    /\ pc = "idle"
    /\ \E ts \in TimeInputs, recv_at \in TimeInputs :
          /\ features' = [ts |-> ts, recv_at |-> recv_at]
          /\ scores' = LET ais_row == [timestamp_s |-> parse_time_s(ts)]
                           arpa_row == [timestamp_s |-> parse_time_s(recv_at)]
                       IN  [ais_t |-> ais_row.timestamp_s,
                            arpa_t |-> arpa_row.timestamp_s,
                            dt_s |-> Abs(arpa_row.timestamp_s - ais_row.timestamp_s)]
    /\ pc' = "parsed"
    /\ UNCHANGED <<match_threshold, polygon, ais_data, arpa_data, ais_df, arpa_df,
                   candidates, accept_threshold, matches, unmatched_arpa_ids,
                   greedy_matches, result, scoring_params, score_p>>

parse_return ==
    /\ UNCHANGED <<lvars, cvars>>
    /\ pc = "parsed"
    /\ pc' = "idle"
    /\ features' = NoFeatures
    /\ scores' = NoFeatures
    /\ UNCHANGED <<match_threshold, polygon, ais_data, arpa_data, ais_df, arpa_df,
                   candidates, accept_threshold, matches, unmatched_arpa_ids,
                   greedy_matches, result, scoring_params, score_p>>

\* whole degrees inside and outside [0, 360), negative ones included
AngleInputs ==
    {-720, -541, -360, -181, -180, -179, -90, -1, 0, 1, 90, 179, 180, 181,
     270, 359, 360, 361, 539, 540, 721}

angle_call ==
    /\ UNCHANGED <<lvars, cvars>>
    /\ pc = "idle"
    /\ \E a \in AngleInputs, b \in AngleInputs :
          /\ features' = [a |-> a, b |-> b]
          /\ scores' = [ab |-> angle_diff_deg(a, b), ba |-> angle_diff_deg(b, a)]
    /\ pc' = "angled"
    /\ UNCHANGED <<match_threshold, polygon, ais_data, arpa_data, ais_df, arpa_df,
                   candidates, accept_threshold, matches, unmatched_arpa_ids,
                   greedy_matches, result, scoring_params, score_p>>

angle_return ==
    /\ UNCHANGED <<lvars, cvars>>
    /\ pc = "angled"
    /\ pc' = "idle"
    /\ features' = NoFeatures
    /\ scores' = NoFeatures
    /\ UNCHANGED <<match_threshold, polygon, ais_data, arpa_data, ais_df, arpa_df,
                   candidates, accept_threshold, matches, unmatched_arpa_ids,
                   greedy_matches, result, scoring_params, score_p>>

----------------------------------------------------------------------------
(* The matching cycle, and the matcher's functions called on their own *)

Next ==
    \/ process_matching
    \/ fetch_ais_data
    \/ fetch_arpa_data
    \/ match_and_assemble
    \/ return_result
    \/ assign_call
    \/ assign_return
    \/ empty_call
    \/ raised_return
    \/ sanitize_call
    \/ sanitize_return
    \/ parse_call
    \/ parse_return
    \/ angle_call
    \/ angle_return
    \/ score_call
    \/ score_return

Spec == Init /\ [][Next]_vars


----------------------------------------------------------------------------
(* app/services/websocket.py: upstream frames and what process_message reads
   in them *)

\* a feature of a FeatureCollection; null_properties: "properties": null
Feature(null_properties, ptype, gtype, coordinates) ==
    [properties |-> [null |-> null_properties, type |-> ptype],
     geometry |-> [type |-> gtype, coordinates |-> coordinates]]

OuterRing == SamplePolygon[1]
InnerRing ==
    << <<116808000, -1280000>>, <<116809000, -1280000>>,
       <<116809000, -1279000>>, <<116808000, -1280000>> >>

CameraFeature == Feature(FALSE, "camera", "Point", <<>>)
SeaArea(coordinates) == Feature(FALSE, "visible_sea_area", "Polygon", coordinates)
FeatureCollection(feats) == Message("text", "object", "FeatureCollection", feats)

\* frames the upstream server may send
FrameText == Message("text", "invalid", "", <<>>)
FrameBinary == Message("binary", "undecodable", "", <<>>)
FrameArray == Message("text", "array", "", <<>>)
FrameOther == Message("text", "object", "Feature", <<>>)
FrameCamera == FeatureCollection(<<CameraFeature>>)
FrameTrigger == FeatureCollection(<<CameraFeature, SeaArea(<<OuterRing>>)>>)
FrameHole == FeatureCollection(<<SeaArea(<<OuterRing, InnerRing>>)>>)
FramePoint ==
    FeatureCollection(<<Feature(FALSE, "visible_sea_area", "Point", <<>>)>>)
FrameNoCoords == FeatureCollection(<<SeaArea(<<>>)>>)
FrameEmptyRing == FeatureCollection(<<SeaArea(<< <<>> >>)>>)
FrameNullProps ==
    FeatureCollection(<<Feature(TRUE, "", "Point", <<>>), SeaArea(<<OuterRing>>)>>)

Messages ==
    {FrameText, FrameBinary, FrameArray, FrameOther, FrameCamera, FrameTrigger,
     FrameHole, FramePoint, FrameNoCoords, FrameEmptyRing, FrameNullProps}

\* json.loads(message): the value, or the exception it raises
json_loads(message) ==
    IF message.wire = "binary" /\ message.json = "undecodable"
    THEN [raises |-> "UnicodeDecodeError", value |-> NoMessage]
    ELSE IF message.json = "invalid"
         THEN [raises |-> "JSONDecodeError", value |-> NoMessage]
         ELSE [raises |-> "", value |-> message]

\* {"raw_message": message}
RawMessage == Message("text", "object", "", <<>>)

NoPolygon == [found |-> FALSE, ring |-> <<>>, raises |-> ""]

\* the loop of extract_polygon_from_camera_fov from feature k on
RECURSIVE FeatureLoop(_, _)
FeatureLoop(feats, k) ==
    IF k > Len(feats) THEN NoPolygon
    ELSE LET feature == feats[k]
         IN  IF feature.properties.null
             THEN [NoPolygon EXCEPT !.raises = "AttributeError"]
             ELSE IF /\ feature.properties.type = "visible_sea_area"
                     /\ feature.geometry.type = "Polygon"
                     /\ Len(feature.geometry.coordinates) > 0
                  THEN [found |-> TRUE, ring |-> feature.geometry.coordinates[1],
                        raises |-> ""]
                  ELSE FeatureLoop(feats, k + 1)

\* extract_polygon_from_camera_fov: the ring, or None (found = FALSE); an
\* exception of the loop is caught and gives None
extract_polygon_from_camera_fov(data) ==
    IF data.type = "FeatureCollection"
    THEN LET r == FeatureLoop(data.features, 1)
         IN  IF r.raises # "" THEN NoPolygon ELSE r
    ELSE NoPolygon

\* the outer `except Exception` of process_message
Caught_json_only(exc) == exc = "JSONDecodeError"

Caught(exc) == exc \in {"JSONDecodeError", "UnicodeDecodeError", "AttributeError"}

\* process_message up to the call of process_matching: "cycle" with the
\* polygon argument, "ignore", or "raise" when an exception leaves it
ReadMessage(message) ==
    LET loaded == json_loads(message)
        data == IF loaded.raises = "JSONDecodeError" THEN RawMessage ELSE loaded.value
        extracted == extract_polygon_from_camera_fov(data)
    IN  IF loaded.raises \notin {"", "JSONDecodeError"}
        THEN [does |-> IF Caught(loaded.raises) THEN "ignore" ELSE "raise",
              polygon |-> <<>>]
        ELSE IF data.json = "object" /\ data.type = "FeatureCollection"
                /\ extracted.found /\ Truthy(extracted.ring)
             THEN [does |-> "cycle", polygon |-> <<extracted.ring>>]
             ELSE [does |-> "ignore", polygon |-> <<>>]

----------------------------------------------------------------------------
(* app/services/websocket.py: listen, process_message, broadcast_to_clients.
   The tasks share one event loop: a task runs from one await that suspends
   it to the next, and nothing else runs in between. *)

\* the cache read of websocket_endpoint awaited
Suspends_get_recent(at) ==
    at \in {"connecting", "recv", "up_send", "client_send", "sleep", "accept",
            "receive_text", "get_recent"}

\* the store queries of process_matching awaited
Suspends_fetch(at) ==
    at \in {"connecting", "recv", "up_send", "client_send", "sleep", "accept",
            "receive_text", "process_matching"}

\* the awaits that give the event loop away: websockets.connect, the next
\* frame, the two sends, asyncio.sleep, websocket.accept, receive_text
Suspends(at) ==
    at \in {"connecting", "recv", "up_send", "client_send", "sleep", "accept",
            "receive_text"}

\* the event loop may run task t
Scheduled(t) == running \in {0, t}

\* who holds the event loop once task t has come to `at`
Yield(t, at) == IF at = "done" \/ Suspends(at) THEN 0 ELSE t

\* `while self.is_running and self.is_active`
LoopCheck(run, active) == IF run /\ active THEN "connecting" ELSE "done"

\* the two except clauses of listen, and its finally when they return
ListenExcept ==
    IF is_active /\ is_running
    THEN [at |-> "sleep", ws_conn |-> ws_conn]
    ELSE [at |-> "done", ws_conn |-> 0]

\* task t is at `at` with fresh locals, still on connection c
Back(t, at, c) == [tasks EXCEPT ![t] = ListenTask(at, [IdleLocals EXCEPT !.conn = c])]

\* listen() starts running
listen_start(t) ==
    /\ tasks[t].at = "created"
    /\ Scheduled(t)
    /\ is_running' = TRUE
    /\ LET at == LoopCheck(TRUE, is_active)
       IN  /\ tasks' = Back(t, at, 0)
           /\ running' = Yield(t, at)
    /\ UNCHANGED <<is_active, ws_conn, listener_task, connected_clients, conns,
                   nevents, up_sent, endpoints, inbox>>
    /\ UNCHANGED <<mvars, cvars>>

\* websockets.connect returns a connection, or raises
connect(t) ==
    /\ tasks[t].at = "connecting"
    /\ Scheduled(t)
    /\ \/ /\ conns' = [conns EXCEPT ![t] = "open"]
          /\ ws_conn' = t
          /\ tasks' = Back(t, "recv", t)
          /\ UNCHANGED nevents
       \/ /\ nevents < MaxEvents
          /\ nevents' = nevents + 1
          /\ tasks' = Back(t, ListenExcept.at, 0)
          /\ ws_conn' = ListenExcept.ws_conn
          /\ UNCHANGED conns
    /\ running' = 0
    /\ UNCHANGED <<is_active, is_running, listener_task, connected_clients,
                   up_sent, endpoints, inbox>>
    /\ UNCHANGED <<mvars, cvars>>

\* `async for message in websocket` yields a frame: the flags are tested,
\* then process_message runs up to the call of process_matching
recv_frame(t) ==
    /\ tasks[t].at = "recv"
    /\ Scheduled(t)
    /\ conns[t] \in {"open", "closing"}
    /\ nevents < MaxEvents
    /\ nevents' = nevents + 1
    /\ IF ~is_active \/ ~is_running
       THEN /\ tasks' = Back(t, "done", 0)
            /\ conns' = [conns EXCEPT ![t] = "none"]
            /\ ws_conn' = 0
            /\ running' = 0
       ELSE \E m \in Messages :
               LET r == ReadMessage(m)
                   frame == [n |-> nevents + 1, message |-> m]
               IN  CASE r.does = "cycle" ->
                          /\ tasks' = [tasks EXCEPT ![t].at = "process_matching",
                                                    ![t].frame = frame,
                                                    ![t].polygon = r.polygon]
                          /\ running' = Yield(t, "process_matching")
                          /\ UNCHANGED <<conns, ws_conn>>
                     [] r.does = "ignore" ->
                          /\ tasks' = [tasks EXCEPT ![t].at = "return",
                                                    ![t].frame = frame]
                          /\ running' = Yield(t, "return")
                          /\ UNCHANGED <<conns, ws_conn>>
                     [] r.does = "raise" ->
                          /\ tasks' = [Back(t, ListenExcept.at, 0)
                                          EXCEPT ![t].frame = frame]
                          /\ ws_conn' = ListenExcept.ws_conn
                          /\ conns' = [conns EXCEPT ![t] = "none"]
                          /\ running' = 0
    /\ UNCHANGED <<is_active, is_running, listener_task, connected_clients,
                   up_sent, endpoints, inbox>>
    /\ UNCHANGED <<mvars, cvars>>

\* the close() that stop_listener asked for is done: `async for` ends
recv_closed(t) ==
    /\ tasks[t].at = "recv"
    /\ Scheduled(t)
    /\ conns[t] = "closing"
    /\ LET at == LoopCheck(is_running, is_active)
       IN  /\ tasks' = Back(t, at, 0)
           /\ running' = Yield(t, at)
    /\ ws_conn' = 0
    /\ conns' = [conns EXCEPT ![t] = "none"]
    /\ UNCHANGED <<is_active, is_running, listener_task, connected_clients,
                   nevents, up_sent, endpoints, inbox>>
    /\ UNCHANGED <<mvars, cvars>>

\* the upstream server closes the connection and `async for` ends, or the
\* connection breaks and it raises ConnectionClosedError
server_close(t) ==
    /\ tasks[t].at = "recv"
    /\ Scheduled(t)
    /\ conns[t] \in {"open", "closing"}
    /\ nevents < MaxEvents
    /\ nevents' = nevents + 1
    /\ \/ LET at == LoopCheck(is_running, is_active)
          IN  /\ tasks' = Back(t, at, 0)
              /\ running' = Yield(t, at)
              /\ ws_conn' = 0
       \/ /\ tasks' = Back(t, ListenExcept.at, 0)
          /\ ws_conn' = ListenExcept.ws_conn
          /\ running' = 0
    /\ conns' = [conns EXCEPT ![t] = "none"]
    /\ UNCHANGED <<is_active, is_running, listener_task, connected_clients,
                   up_sent, endpoints, inbox>>
    /\ UNCHANGED <<mvars, cvars>>

\* asyncio.sleep(reconnect_delay) is over: finally, then the while test
sleep_done(t) ==
    /\ tasks[t].at = "sleep"
    /\ Scheduled(t)
    /\ ws_conn' = 0
    /\ LET at == LoopCheck(is_running, is_active)
       IN  /\ tasks' = Back(t, at, 0)
           /\ running' = Yield(t, at)
    /\ UNCHANGED <<is_active, is_running, listener_task, connected_clients, conns,
                   nevents, up_sent, endpoints, inbox>>
    /\ UNCHANGED <<mvars, cvars>>

\* what a store query of the cycle gives: rows, no row, or None on failure
QueryOutcomes == {"rows", "empty", "failed"}

\* process_matching as process_message sees it: the two fetches (a failed
\* query gives no row), then "Insufficient data" with success, or the
\* matching, which returns success or, when it raised, success = False
await_process_matching(t) ==
    /\ tasks[t].at = "process_matching"
    /\ Scheduled(t)
    /\ \E ais \in QueryOutcomes, arpa \in QueryOutcomes, ok \in BOOLEAN :
          /\ (ais # "rows" \/ arpa # "rows") => ok
          /\ tasks' = [tasks EXCEPT
                          ![t].at = "respond",
                          ![t].success = ok,
                          ![t].query_failed = ais = "failed" \/ arpa = "failed"]
    /\ running' = Yield(t, "respond")
    /\ UNCHANGED <<is_active, is_running, ws_conn, listener_task, connected_clients,
                   conns, nevents, up_sent, endpoints, inbox>>
    /\ UNCHANGED <<mvars, cvars>>

\* response_data of process_message
Envelope(frame) ==
    [type |-> "assignments_weighted", n |-> frame.n, message_listener |-> frame.message]

\* the initial message of websocket_endpoint
RecentLimit == 50

InitialData ==
    [type |-> "initial_data", n |-> 0, message_listener |-> NoMessage,
     data |-> get_recent(RecentLimit)]

\* process_message after process_matching returned: the send on
\* self._websocket_connection (on a connection that is not open it raises
\* at once and the exception is swallowed), then the broadcast
respond(t) ==
    /\ tasks[t].at = "respond"
    /\ Scheduled(t)
    /\ IF ~tasks[t].success
       THEN /\ tasks' = [tasks EXCEPT ![t].at = "return"]
            /\ running' = Yield(t, "return")
            /\ UNCHANGED up_sent
       ELSE IF ws_conn # 0 /\ conns[ws_conn] = "open"
            THEN /\ up_sent' = [up_sent EXCEPT ![t] = ws_conn]
                 /\ tasks' = [tasks EXCEPT ![t].at = "up_send"]
                 /\ running' = Yield(t, "up_send")
            ELSE /\ tasks' = [tasks EXCEPT ![t].at = "broadcast",
                                           ![t].stayed = SeqToSet(connected_clients)]
                 /\ running' = Yield(t, "broadcast")
                 /\ UNCHANGED up_sent
    /\ UNCHANGED <<is_active, is_running, ws_conn, listener_task, connected_clients,
                   conns, nevents, endpoints, inbox>>
    /\ UNCHANGED <<mvars, cvars>>

\* a send to this subscriber's socket goes through
Alive(c) == endpoints[c] \in {"get_recent", "receive_text"}

\* broadcast_to_clients: `for client in self.connected_clients`, one turn of
\* the loop up to the await of send_text; idx counts the clients taken so far
broadcast_to_clients(t) ==
    /\ tasks[t].at \in {"up_send", "broadcast", "client_send"}
    /\ Scheduled(t)
    /\ LET me == tasks[t]
           stayed == IF me.at = "up_send" THEN SeqToSet(connected_clients)
                     ELSE me.stayed
       IN  IF me.idx >= Len(connected_clients)
           THEN /\ tasks' = [tasks EXCEPT ![t].at = "bcast_done", ![t].stayed = stayed]
                /\ running' = Yield(t, "bcast_done")
                /\ UNCHANGED inbox
           ELSE LET client == connected_clients[me.idx + 1]
                IN  /\ inbox' = IF Alive(client)
                                THEN [inbox EXCEPT
                                        ![client] = Append(@, Envelope(me.frame))]
                                ELSE inbox
                    /\ tasks' = [tasks EXCEPT
                                    ![t].at = "client_send",
                                    ![t].idx = me.idx + 1,
                                    ![t].stayed = stayed,
                                    ![t].disconnected_clients =
                                        IF Alive(client) THEN @ ELSE Append(@, client)]
                    /\ running' = Yield(t, "client_send")
    /\ UNCHANGED <<is_active, is_running, ws_conn, listener_task, connected_clients,
                   conns, nevents, up_sent, endpoints>>
    /\ UNCHANGED <<mvars, cvars>>

\* remove_client, and who is no longer a subscriber for the whole of a
\* broadcast under way
remove_client(clients, c) == Without(clients, {c})

Forget(ts, gone) == [t \in TaskIds |-> [ts[t] EXCEPT !.stayed = @ \ gone]]

\* broadcast_to_clients after the loop: the failed subscribers are removed
broadcast_end(t) ==
    /\ tasks[t].at = "bcast_done"
    /\ Scheduled(t)
    /\ LET gone == SeqToSet(tasks[t].disconnected_clients)
       IN  /\ connected_clients' = Without(connected_clients, gone)
           /\ tasks' = [Forget(tasks, gone \cap SeqToSet(connected_clients))
                           EXCEPT ![t].at = "return"]
    /\ running' = Yield(t, "return")
    /\ UNCHANGED <<is_active, is_running, ws_conn, listener_task, conns, nevents,
                   up_sent, endpoints, inbox>>
    /\ UNCHANGED <<mvars, cvars>>

\* process_message returns and listen waits for the next frame
process_message_return(t) ==
    /\ tasks[t].at = "return"
    /\ Scheduled(t)
    /\ tasks' = [Back(t, "recv", tasks[t].conn) EXCEPT
                    ![t].survived = tasks[t].survived \/ ~tasks[t].success]
    /\ up_sent' = [up_sent EXCEPT ![t] = 0]
    /\ running' = Yield(t, "recv")
    /\ UNCHANGED <<is_active, is_running, ws_conn, listener_task, connected_clients,
                   conns, nevents, endpoints, inbox>>
    /\ UNCHANGED <<mvars, cvars>>

\* start_listener, when the listener is not active
start_listener ==
    /\ running = 0
    /\ ~is_active
    /\ nevents < MaxEvents
    /\ nevents' = nevents + 1
    /\ is_active' = TRUE
    /\ is_running' = FALSE
    /\ IF listener_task = 0 \/ tasks[listener_task].at = "done"
       THEN /\ tasks' = Back(StartedTask, "created", 0)
            /\ listener_task' = StartedTask
       ELSE UNCHANGED <<tasks, listener_task>>
    /\ UNCHANGED <<ws_conn, connected_clients, running, conns, up_sent,
                   endpoints, inbox>>
    /\ UNCHANGED <<mvars, cvars>>

\* stop_listener, when the listener is active
stop_listener ==
    /\ running = 0
    /\ is_active
    /\ nevents < MaxEvents
    /\ nevents' = nevents + 1
    /\ is_active' = FALSE
    /\ is_running' = FALSE
    /\ conns' = IF ws_conn # 0 /\ conns[ws_conn] = "open"
                THEN [conns EXCEPT ![ws_conn] = "closing"]
                ELSE conns
    /\ UNCHANGED <<ws_conn, listener_task, connected_clients, tasks, running,
                   up_sent, endpoints, inbox>>
    /\ UNCHANGED <<mvars, cvars>>

\* add_client
add_client(clients, c) == Append(clients, c)

\* websocket_endpoint after add_client: the initial message is sent and the
\* receive loop is entered (its echoes are not recorded)
SendInitial(c) ==
    /\ inbox' = [inbox EXCEPT ![c] = Append(@, InitialData)]
    /\ endpoints' = [endpoints EXCEPT ![c] = "receive_text"]

\* websocket_endpoint of subscriber c, from one await to the next (nothing
\* happens to the listener while websocket.accept is awaited); the
\* subscribers connect in the order of their numbers
websocket_endpoint(c) ==
    /\ running = 0
    /\ CASE endpoints[c] = "idle" ->
              /\ \A d \in ClientIds : d < c => endpoints[d] # "idle"
              /\ nevents < MaxEvents
              /\ nevents' = nevents + 1
              /\ connected_clients' = add_client(connected_clients, c)
              /\ IF Suspends("get_recent")
                 THEN /\ endpoints' = [endpoints EXCEPT ![c] = "get_recent"]
                      /\ UNCHANGED <<inbox, cvars>>
                 ELSE SendInitial(c) /\ checked_cache
              /\ UNCHANGED tasks
         [] endpoints[c] = "get_recent" ->
              /\ SendInitial(c)
              /\ checked_cache
              /\ UNCHANGED <<connected_clients, tasks, nevents>>
         [] endpoints[c] = "dropped" ->
              /\ endpoints' = [endpoints EXCEPT ![c] = "closed"]
              /\ connected_clients' = remove_client(connected_clients, c)
              /\ tasks' = Forget(tasks, {c})
              /\ UNCHANGED <<inbox, nevents, cvars>>
         [] OTHER -> FALSE
    /\ UNCHANGED <<is_active, is_running, ws_conn, listener_task, running, conns,
                   up_sent>>
    /\ UNCHANGED mvars

\* the subscriber goes away: receive_text will raise WebSocketDisconnect
client_drops(c) ==
    /\ running = 0
    /\ endpoints[c] = "receive_text"
    /\ nevents < MaxEvents
    /\ nevents' = nevents + 1
    /\ endpoints' = [endpoints EXCEPT ![c] = "dropped"]
    /\ UNCHANGED <<is_active, is_running, ws_conn, listener_task, connected_clients,
                   tasks, running, conns, up_sent, inbox>>
    /\ UNCHANGED <<mvars, cvars>>

\* the application is up: lifespan has created the listen task, the
\* controller is idle
InitListener ==
    /\ WebSocketListener_init(WEBSOCKET_AUTO_START)
    /\ \E up \in BOOLEAN : DataCache_init(up)
    /\ match_threshold = MATCH_THRESHOLD
    /\ pc = "idle"
    /\ polygon = <<>>
    /\ ais_data = <<>>
    /\ arpa_data = <<>>
    /\ ais_df = <<>>
    /\ arpa_df = <<>>
    /\ candidates = <<>>
    /\ accept_threshold = match_threshold
    /\ matches = <<>>
    /\ unmatched_arpa_ids = <<>>
    /\ greedy_matches = <<>>
    /\ result = NoResult
    /\ scoring_params = ControllerScoringParams
    /\ features = NoFeatures
    /\ score_p = NoFeatures
    /\ scores = NoFeatures

\* what the listen task does by itself
ListenerStep(t) ==
    \/ listen_start(t)
    \/ connect(t)
    \/ recv_frame(t)
    \/ recv_closed(t)
    \/ server_close(t)
    \/ sleep_done(t)
    \/ await_process_matching(t)
    \/ respond(t)
    \/ broadcast_to_clients(t)
    \/ broadcast_end(t)
    \/ process_message_return(t)

NextListener ==
    \/ \E t \in TaskIds : ListenerStep(t)
    \/ start_listener
    \/ stop_listener
    \/ \E c \in ClientIds : websocket_endpoint(c)
    \/ \E c \in ClientIds : client_drops(c)

SpecListener == InitListener /\ [][NextListener]_vars

\* what a listen task does without the outside world: every await of listen
\* and process_message returns, except the wait for the next frame
ProgramStep(t) ==
    \/ listen_start(t)
    \/ connect(t)
    \/ recv_closed(t)
    \/ sleep_done(t)
    \/ await_process_matching(t)
    \/ respond(t)
    \/ broadcast_to_clients(t)
    \/ broadcast_end(t)
    \/ process_message_return(t)

\* the event loop runs every task that is ready
SpecListenerFair == SpecListener /\ \A t \in TaskIds : WF_vars(ProgramStep(t))

----------------------------------------------------------------------------
(* app/services/cache.py: the operations of DataCache, called from threads.
   A thread holds the interpreter between the steps below; another thread,
   Redis going away or coming back, and the clock may come in between. *)

Operations == {"add", "get_recent", "get_by_timerange", "get_stats", "clear"}

\* the arguments the threads pass
Limits == 0..CacheMaxSize
Ranges == {<<1, 1>>, <<1, 2>>, <<2, 2>>, <<2, 3>>}

IdleCaller ==
    [at |-> "idle", op |-> "", limit |-> 0, range |-> <<0, 0>>, item |-> NoItem,
     seen |-> 0, result |-> <<>>, backend |-> "", current_size |-> 0, total |-> 0]

\* the first Redis command of each operation
FirstCommand(op) ==
    CASE op = "add" -> "zadd"
      [] op = "get_recent" -> "zrevrange"
      [] op = "get_by_timerange" -> "zrangebyscore"
      [] op = "get_stats" -> "zcard"
      [] op = "clear" -> "delete"

RedisCommands == {"zadd", "trim", "expire", "zrevrange", "zrangebyscore", "zcard", "delete"}

\* `with self._lock` lets a thread in when no thread holds the lock
CanAcquire_always(holder) == TRUE

CanAcquire(holder) == holder = 0

\* a thread calls an operation: `with self._lock:`, the stamp of add, and
\* `if self._check_redis():`
enter(t) ==
    /\ callers[t].at = "idle"
    /\ ncalls < MaxCalls
    /\ ncalls' = ncalls + 1
    /\ CanAcquire(lock)
    /\ lock' = t
    /\ \E op \in Operations, limit \in Limits, range \in Ranges :
         /\ op # "get_recent" => limit = 0
         /\ op # "get_by_timerange" => range = <<1, 1>>
         /\ op = "add" => now < MaxClock
         /\ now' = IF op = "add" THEN now + 1 ELSE now
         /\ LET checked == check_redis(redis_up, redis_available, redis_client)
            IN  /\ redis_available' = checked.available
                /\ redis_client' = checked.client
                /\ callers' = [callers EXCEPT ![t] =
                       [IdleCaller EXCEPT
                          !.at = IF checked.ok THEN FirstCommand(op) ELSE "fallback",
                          !.op = op, !.limit = limit, !.range = range,
                          !.item = IF op = "add" THEN Item(now + 1) ELSE NoItem]]
    /\ UNCHANGED <<redis_up, redis_zset, redis_expire_at, fallback_cache,
                   total_messages, added>>
    /\ UNCHANGED <<mvars, lvars>>

\* a Redis command that succeeds
redis_command(t) ==
    /\ callers[t].at \in RedisCommands
    /\ redis_up /\ redis_client
    /\ LET me == callers[t]
       IN  CASE me.at = "zadd" ->
                  /\ redis_zset' = zadd(Key.zset, me.item)
                  /\ redis_expire_at' = Key.expire_at
                  /\ callers' = [callers EXCEPT ![t].at = "trim"]
                  /\ UNCHANGED <<fallback_cache, total_messages, added>>
             [] me.at = "trim" ->
                  /\ redis_zset' =
                        IF Len(Key.zset) > CacheMaxSize
                        THEN zremrangebyrank(Key.zset, Len(Key.zset) - CacheMaxSize - 1)
                        ELSE Key.zset
                  /\ redis_expire_at' = Key.expire_at
                  /\ callers' = [callers EXCEPT ![t].at = "expire"]
                  /\ UNCHANGED <<fallback_cache, total_messages, added>>
             [] me.at = "expire" ->
                  /\ redis_zset' = Key.zset
                  /\ redis_expire_at' = IF Key.zset = <<>> THEN 0 ELSE now + CacheTtl
                  /\ callers' = [callers EXCEPT ![t].at = "count"]
                  /\ UNCHANGED <<fallback_cache, total_messages, added>>
             [] me.at = "zrevrange" ->
                  /\ callers' = [callers EXCEPT
                         ![t].at = "release",
                         ![t].backend = "redis",
                         ![t].result = get_recent_redis(Key.zset, me.limit, now)]
                  /\ UNCHANGED <<redis_zset, redis_expire_at, fallback_cache,
                                 total_messages, added>>
             [] me.at = "zrangebyscore" ->
                  /\ callers' = [callers EXCEPT
                         ![t].at = "release",
                         ![t].backend = "redis",
                         ![t].result = zrangebyscore(Key.zset, me.range[1], me.range[2])]
                  /\ UNCHANGED <<redis_zset, redis_expire_at, fallback_cache,
                                 total_messages, added>>
             [] me.at = "zcard" ->
                  /\ callers' = [callers EXCEPT
                         ![t].at = "release",
                         ![t].backend = "redis",
                         ![t].current_size = Len(Key.zset),
                         ![t].total = total_messages]
                  /\ UNCHANGED <<redis_zset, redis_expire_at, fallback_cache,
                                 total_messages, added>>
             [] me.at = "delete" ->
                  /\ redis_zset' = <<>>
                  /\ redis_expire_at' = 0
                  /\ callers' = [callers EXCEPT ![t].at = "fallback"]
                  /\ UNCHANGED <<fallback_cache, total_messages, added>>
    /\ UNCHANGED <<now, redis_up, redis_client, redis_available, lock>>
    /\ UNCHANGED <<mvars, lvars, ncalls>>

\* a Redis command that raises: `except Exception: self._redis_available = False`
redis_error(t) ==
    /\ callers[t].at \in RedisCommands
    /\ ~(redis_up /\ redis_client)
    /\ redis_available' = FALSE
    /\ callers' = [callers EXCEPT ![t].at = "fallback"]
    /\ UNCHANGED <<now, redis_up, redis_zset, redis_expire_at, redis_client,
                   fallback_cache, total_messages, lock, added>>
    /\ UNCHANGED <<mvars, lvars, ncalls>>

\* the in-memory part of each operation
fallback(t) ==
    /\ callers[t].at = "fallback"
    /\ LET me == callers[t]
       IN  CASE me.op = "add" ->
                  /\ fallback_cache' = deque_append(fallback_cache, me.item, CacheMaxSize)
                  /\ callers' = [callers EXCEPT ![t].at = "count"]
                  /\ UNCHANGED <<total_messages, added>>
             [] me.op = "get_recent" ->
                  /\ callers' = [callers EXCEPT
                         ![t].at = "release",
                         ![t].backend = "memory",
                         ![t].result = get_recent_memory(fallback_cache, me.limit, now)]
                  /\ UNCHANGED <<fallback_cache, total_messages, added>>
             [] me.op = "get_by_timerange" ->
                  /\ callers' = [callers EXCEPT
                         ![t].at = "release",
                         ![t].backend = "memory",
                         ![t].result = SelectSeq(fallback_cache, LAMBDA x :
                             me.range[1] <= x.timestamp /\ x.timestamp <= me.range[2])]
                  /\ UNCHANGED <<fallback_cache, total_messages, added>>
             [] me.op = "get_stats" ->
                  /\ callers' = [callers EXCEPT
                         ![t].at = "release",
                         ![t].backend = "memory",
                         ![t].current_size = Len(fallback_cache),
                         ![t].total = total_messages]
                  /\ UNCHANGED <<fallback_cache, total_messages, added>>
             [] me.op = "clear" ->
                  /\ fallback_cache' = <<>>
                  /\ total_messages' = 0
                  /\ added' = <<>>
                  /\ callers' = [callers EXCEPT ![t].at = "release"]
    /\ UNCHANGED <<now, redis_up, redis_zset, redis_expire_at, redis_client,
                   redis_available, lock>>
    /\ UNCHANGED <<mvars, lvars, ncalls>>

\* `self._stats["total_messages"] += 1` reads the counter ...
count_read(t) ==
    /\ callers[t].at = "count"
    /\ callers' = [callers EXCEPT ![t].at = "count_write", ![t].seen = total_messages]
    /\ UNCHANGED <<now, redis_up, redis_zset, redis_expire_at, redis_client,
                   redis_available, fallback_cache, total_messages, lock, added>>
    /\ UNCHANGED <<mvars, lvars, ncalls>>

\* ... and writes it back one higher; add is done
count_write(t) ==
    /\ callers[t].at = "count_write"
    /\ total_messages' = callers[t].seen + 1
    /\ added' = Append(added, callers[t].item)
    /\ callers' = [callers EXCEPT ![t].at = "release"]
    /\ UNCHANGED <<now, redis_up, redis_zset, redis_expire_at, redis_client,
                   redis_available, fallback_cache, lock>>
    /\ UNCHANGED <<mvars, lvars, ncalls>>

\* the end of the `with` block: the operation returns
release(t) ==
    /\ callers[t].at = "release"
    /\ lock' = IF lock = t THEN 0 ELSE lock
    /\ callers' = [callers EXCEPT ![t] = IdleCaller]
    /\ UNCHANGED <<now, redis_up, redis_zset, redis_expire_at, redis_client,
                   redis_available, fallback_cache, total_messages, added>>
    /\ UNCHANGED <<mvars, lvars, ncalls>>

\* close, which takes no lock: `self._redis_client = None` ...
close_client(t) ==
    /\ callers[t].at = "idle"
    /\ redis_client
    /\ redis_client' = FALSE
    /\ callers' = [callers EXCEPT ![t] = [IdleCaller EXCEPT !.at = "close", !.op = "close"]]
    /\ UNCHANGED <<now, redis_up, redis_zset, redis_expire_at, redis_available,
                   fallback_cache, total_messages, lock, added>>
    /\ ncalls < MaxCalls
    /\ ncalls' = ncalls + 1
    /\ UNCHANGED <<mvars, lvars>>

\* ... then `self._redis_available = False`
close_available(t) ==
    /\ callers[t].at = "close"
    /\ redis_available' = FALSE
    /\ callers' = [callers EXCEPT ![t] = IdleCaller]
    /\ UNCHANGED <<now, redis_up, redis_zset, redis_expire_at, redis_client,
                   fallback_cache, total_messages, lock, added>>
    /\ UNCHANGED <<mvars, lvars, ncalls>>

\* the Redis server becomes unreachable, or reachable again
redis_flips ==
    /\ redis_up' = ~redis_up
    /\ UNCHANGED <<now, redis_zset, redis_expire_at, redis_client, redis_available,
                   fallback_cache, total_messages, lock, callers, added>>
    /\ ncalls < MaxCalls
    /\ ncalls' = ncalls + 1
    /\ UNCHANGED <<mvars, lvars>>

\* time passes
clock_tick ==
    /\ now < MaxClock
    /\ now' = now + 1
    /\ UNCHANGED <<redis_up, redis_zset, redis_expire_at, redis_client,
                   redis_available, fallback_cache, total_messages, lock, callers, added>>
    /\ UNCHANGED <<mvars, lvars, ncalls>>

InitCache == InitListener

NextCache ==
    \/ \E t \in CacheThreads : enter(t)
    \/ \E t \in CacheThreads : redis_command(t)
    \/ \E t \in CacheThreads : redis_error(t)
    \/ \E t \in CacheThreads : fallback(t)
    \/ \E t \in CacheThreads : count_read(t)
    \/ \E t \in CacheThreads : count_write(t)
    \/ \E t \in CacheThreads : release(t)
    \/ \E t \in CacheThreads : close_client(t)
    \/ \E t \in CacheThreads : close_available(t)
    \/ redis_flips
    \/ clock_tick

SpecCache == InitCache /\ [][NextCache]_vars

----------------------------------------------------------------------------
(* Properties *)

\* a process_matching call has returned its result
CycleDone == pc = "done"
\* assign_one_to_one has returned (inside a cycle, or called on its own)
AssignDone == pc \in {"done", "assigned"}

MatchedPairs == result.data.matched_pairs
UnmatchedAis == result.data.unmatched_ais
UnmatchedArpa == result.data.unmatched_arpa
Statistics == result.data.statistics

Distinct(s, key) ==
    \A k, l \in 1..Len(s) : k # l => s[k][key] # s[l][key]

\* C1: in the result of a matching cycle, and in what assign_one_to_one
\* returns for any candidate list, no ARPA id and no AIS id appears in more
\* than one matched pair.
C1_OneToOne ==
    /\ AssignDone => Distinct(matches, "arpa_id") /\ Distinct(matches, "ais_id")
    /\ CycleDone => Distinct(MatchedPairs, "arpa_id") /\ Distinct(MatchedPairs, "ais_id")

\* two pairs are matched although two candidates compete for one ARPA id and
\* two for one AIS id
C1_Witness ==
    /\ AssignDone
    /\ Len(matches) = 2
    /\ \E k, l \in 1..Len(candidates) :
          k # l /\ candidates[k].arpa_id = candidates[l].arpa_id
    /\ \E k, l \in 1..Len(candidates) :
          k # l /\ candidates[k].ais_id = candidates[l].ais_id

\* C2: every pair assign_one_to_one emits is an existing candidate whose
\* s_total is at least accept_threshold; a cell without candidate or below
\* the threshold is never emitted.
C2_AcceptedAreCandidates ==
    AssignDone =>
        \A k \in 1..Len(matches) :
            /\ matches[k].score >= accept_threshold
            /\ \E l \in 1..Len(candidates) :
                  /\ candidates[l].arpa_id = matches[k].arpa_id
                  /\ candidates[l].ais_id = matches[k].ais_id
                  /\ candidates[l].s_total = matches[k].score

\* a pair is emitted while another assigned cell is not: there are fewer
\* matches than assigned cells, and a candidate below the threshold exists
C2_Witness ==
    /\ pc = "assigned"
    /\ Len(matches) >= 1
    /\ Len(matches) < Min(Len(arpa_df), Len(ais_df))
    /\ \E l \in 1..Len(candidates) : candidates[l].s_total < accept_threshold

\* C3: every matched pair of a cycle result reports d_m <= gating_distance_m
\* and dt_s <= time_gate_s, and these are the features of a candidate of the
\* pair.
C3_MatchedWithinGates ==
    CycleDone =>
        \A k \in 1..Len(MatchedPairs) :
            LET p == MatchedPairs[k]
            IN  /\ p.features.d_m <= GATING_DISTANCE_M
                /\ p.features.dt_s <= TIME_GATE_S
                /\ \E l \in 1..Len(candidates) :
                      /\ candidates[l].arpa_id = p.arpa_id
                      /\ candidates[l].ais_id = p.ais_id
                      /\ candidates[l].d_m = p.features.d_m
                      /\ candidates[l].dt_s = p.features.dt_s

\* a pair on the time gate is matched while the fetched rows hold a pair
\* beyond a gate
C3_Witness ==
    /\ CycleDone
    /\ \E k \in 1..Len(MatchedPairs) : MatchedPairs[k].features.dt_s = TIME_GATE_S
    /\ Len(candidates) < Len(ais_data) * Len(arpa_data)

IdsOf(data, key) == {data[k][key] : k \in 1..Len(data)}

\* C4: in a cycle with both inputs non-empty the matched and the unmatched
\* ARPA ids are disjoint and together are the input ARPA ids; the same for
\* the AIS ids.
C4_Partition ==
    (CycleDone /\ Truthy(ais_data) /\ Truthy(arpa_data)) =>
        /\ IdsOf(MatchedPairs, "arpa_id") \cap IdsOf(UnmatchedArpa, "target") = {}
        /\ IdsOf(MatchedPairs, "arpa_id") \cup IdsOf(UnmatchedArpa, "target")
              = IdsOf(arpa_data, "target")
        /\ IdsOf(MatchedPairs, "ais_id") \cap IdsOf(UnmatchedAis, "mmsi") = {}
        /\ IdsOf(MatchedPairs, "ais_id") \cup IdsOf(UnmatchedAis, "mmsi")
              = IdsOf(ais_data, "mmsi")

\* a cycle that matches one pair and leaves an ARPA and an AIS id unmatched
C4_Witness ==
    /\ CycleDone
    /\ Len(MatchedPairs) = 1
    /\ Len(UnmatchedArpa) >= 1
    /\ Len(UnmatchedAis) >= 1


\* exactly one of the two fetched inputs is empty
OneSideEmpty == Truthy(ais_data) # Truthy(arpa_data)

\* C5: a cycle with zero observations in one input and at least one in the
\* other returns success with no matched pair, and the unmatched list of the
\* non-empty side holds every one of its records, as many as the unmatched
\* count of the statistics.
C5_OneSideEmpty ==
    (CycleDone /\ OneSideEmpty) =>
        /\ result.success
        /\ MatchedPairs = <<>>
        /\ UnmatchedAis = ais_data
        /\ UnmatchedArpa = arpa_data
        /\ Len(UnmatchedAis) = Statistics.unmatched_ais
        /\ Len(UnmatchedArpa) = Statistics.unmatched_arpa

\* the row pairs of the prepared inputs that lie within both gates
GatedPairs ==
    {c \in (1..Len(arpa_df)) \X (1..Len(ais_df)) :
        LET f == extract_features(ais_df[c[2]], arpa_df[c[1]])
        IN  f.d_m <= GATING_DISTANCE_M /\ f.dt_s <= TIME_GATE_S}

\* C6: build_candidates emits one candidate for each (ARPA row, AIS row) pair
\* with d_m <= gating_distance_m and dt_s <= time_gate_s, a pair exactly on a
\* gate included, and none for any other pair.
C6_CandidatesAreGatedPairs ==
    (CycleDone /\ Truthy(ais_data) /\ Truthy(arpa_data)) =>
        /\ Len(candidates) = Cardinality(GatedPairs)
        /\ \A c \in GatedPairs :
              LET f == extract_features(ais_df[c[2]], arpa_df[c[1]])
              IN  \E k \in 1..Len(candidates) :
                     /\ candidates[k].arpa_id = arpa_df[c[1]].arpa_id
                     /\ candidates[k].ais_id = ais_df[c[2]].ais_id
                     /\ candidates[k].d_m = f.d_m
                     /\ candidates[k].dt_s = f.dt_s
        /\ \A k \in 1..Len(candidates) :
              /\ candidates[k].d_m <= GATING_DISTANCE_M
              /\ candidates[k].dt_s <= TIME_GATE_S
              /\ \E c \in GatedPairs :
                    /\ candidates[k].arpa_id = arpa_df[c[1]].arpa_id
                    /\ candidates[k].ais_id = ais_df[c[2]].ais_id

\* the candidates hold a pair on the distance gate and a pair on the time gate
C6_Witness ==
    /\ CycleDone
    /\ \E k \in 1..Len(candidates) : candidates[k].d_m = GATING_DISTANCE_M
    /\ \E k \in 1..Len(candidates) : candidates[k].dt_s = TIME_GATE_S

\* one ARPA row, one AIS row, one candidate
SinglePair ==
    Len(arpa_df) = 1 /\ Len(ais_df) = 1 /\ Len(candidates) = 1

\* C7: with one ARPA and one AIS observation forming a single candidate the
\* pair is matched if and only if its s_total >= accept_threshold, equality
\* accepted; when it is not matched both ids are reported unmatched.
C7_SinglePair ==
    /\ (AssignDone /\ SinglePair) =>
          /\ Len(matches) = 1 <=> candidates[1].s_total >= accept_threshold
          /\ Len(matches) = 0 => unmatched_arpa_ids = <<arpa_df[1].arpa_id>>
    /\ (CycleDone /\ SinglePair) =>
          /\ Len(MatchedPairs) = 1 <=> candidates[1].s_total >= match_threshold
          /\ Len(MatchedPairs) = 1 =>
                /\ MatchedPairs[1].arpa_id = arpa_data[1].target
                /\ MatchedPairs[1].ais_id = ais_data[1].mmsi
          /\ Len(MatchedPairs) = 0 =>
                UnmatchedAis = ais_data /\ UnmatchedArpa = arpa_data

\* a cycle matches a single pair whose score equals the threshold
C7_Witness ==
    /\ CycleDone
    /\ SinglePair
    /\ candidates[1].s_total = match_threshold
    /\ Len(MatchedPairs) = 1

\* C8: feature_score called with the ScoringParams of MatchingController on
\* any feature vector, with or without range_error_m and bearing_error_deg,
\* returns an s_total in [0, 1].
C8_TotalInUnitInterval ==
    (pc = "scored" /\ score_p = ControllerScoringParams) =>
        scores.s_total >= 0 /\ scores.s_total <= ONE_TOTAL

WeightSum(p) ==
    p.w_pos + p.w_spd + p.w_brg + p.w_time + p.w_range + p.w_brg_geo

\* a candidate of the cycle carries an optional geometry feature
ChannelsUsed ==
    \E k \in 1..Len(candidates) :
        HasKey(candidates[k], "range_error_m")
            \/ HasKey(candidates[k], "bearing_error_deg")

\* C9: the scoring weights in force for a cycle sum to 1.0 when the range and
\* bearing channels are enabled, and the two optional weights are 0 when the
\* channels are not used.
C9_WeightsSumToOne ==
    (CycleDone /\ Truthy(candidates)) =>
        /\ (scoring_params.range_sigma_m > 0 /\ scoring_params.brg_geo_sigma_deg > 0)
              => WeightSum(scoring_params) = 1000
        /\ ~ChannelsUsed =>
              scoring_params.w_range = 0 /\ scoring_params.w_brg_geo = 0

RECURSIVE SumOf(_, _)
SumOf(s, key) == IF s = <<>> THEN 0 ELSE Head(s)[key] + SumOf(Tail(s), key)

\* every candidate reaches the threshold
AllAboveThreshold ==
    \A k \in 1..Len(candidates) : candidates[k].s_total >= accept_threshold

----------------------------------------------------------------------------
(* Properties of the upstream listener *)

\* a feature the statement counts: properties.type "visible_sea_area" and a
\* Polygon geometry with a non-empty coordinate list
CountsAsSeaArea(feature) ==
    /\ ~feature.properties.null
    /\ feature.properties.type = "visible_sea_area"
    /\ feature.geometry.type = "Polygon"
    /\ Len(feature.geometry.coordinates) > 0

\* a frame that is to start a cycle: a JSON object of type FeatureCollection
\* with at least one such feature
IsTriggerFrame(message) ==
    /\ message.wire = "text"
    /\ message.json = "object"
    /\ message.type = "FeatureCollection"
    /\ \E k \in 1..Len(message.features) : CountsAsSeaArea(message.features[k])

\* the outer ring of the first such feature
TriggerRing(message) ==
    LET k == CHOOSE j \in 1..Len(message.features) :
                /\ CountsAsSeaArea(message.features[j])
                /\ \A i \in 1..(j - 1) : ~CountsAsSeaArea(message.features[i])
    IN  message.features[k].geometry.coordinates[1]

\* task t is in a matching cycle, or past it with the result in hand
InCycle(t) == tasks[t].at = "process_matching"
PastCycle(t) == tasks[t].at \in {"respond", "up_send", "broadcast", "client_send",
                                 "bcast_done"}

\* C11, as stated: an upstream frame starts a matching cycle if and only if
\* it is a JSON object of type "FeatureCollection" holding at least one
\* feature with properties.type "visible_sea_area" and a Polygon geometry with
\* a non-empty coordinate list, and the cycle's spatial filter is the first
\* (outer) ring of that polygon; every other frame starts no cycle and is
\* never broadcast.
C11_CycleIffTrigger ==
    /\ \A t \in TaskIds :
          /\ (InCycle(t) \/ PastCycle(t)) =>
                /\ IsTriggerFrame(tasks[t].frame.message)
                /\ tasks[t].polygon = <<TriggerRing(tasks[t].frame.message)>>
          /\ (tasks[t].at = "return" /\ tasks[t].polygon = <<>>) =>
                ~IsTriggerFrame(tasks[t].frame.message)
    /\ \A c \in ClientIds : \A k \in 1..Len(inbox[c]) :
          inbox[c][k].type = "assignments_weighted" =>
              IsTriggerFrame(inbox[c][k].message_listener)

\* the frames process_message drops although they hold such a feature
C11_DroppedTrigger ==
    \E t \in TaskIds :
        /\ tasks[t].at = "return"
        /\ tasks[t].polygon = <<>>
        /\ IsTriggerFrame(tasks[t].frame.message)

\* process_message is running in task t, or has returned to listen
Processing(t) == tasks[t].at \in {"process_matching", "respond", "up_send", "broadcast",
                                  "client_send", "bcast_done", "return"}

\* C12: no frame ends the upstream listener. Whatever the frame (not JSON,
\* malformed, no trigger, a cycle that raises or returns success = false),
\* a task has a frame in hand only inside process_message, and when
\* process_message is left the task is receiving again on the same
\* connection, where a later trigger frame starts a cycle.
C12_FrameNeverEndsListener ==
    [][\A t \in TaskIds :
          /\ tasks'[t].frame # NoFrame => Processing(t)'
          /\ (Processing(t) /\ ~Processing(t)') =>
                /\ tasks'[t].at = "recv"
                /\ tasks'[t].conn = tasks[t].conn
                /\ conns'[t] = conns[t]
                /\ conns'[t] \in {"open", "closing"}]_vars

\* a trigger frame has started a cycle on a connection on which an earlier
\* frame started none or had its cycle fail
C12_Witness ==
    \E t \in TaskIds :
        /\ tasks[t].at = "process_matching"
        /\ tasks[t].survived
        /\ conns[t] = "open"

\* subscriber c has received the envelope of frame n
Received(c, n) ==
    \E k \in 1..Len(inbox[c]) :
        inbox[c][k].type = "assignments_weighted" /\ inbox[c][k].n = n

\* C13, as stated: when a data-store query of a cycle fails (it raises or the
\* client is unavailable) the cycle's result has success = false, and for
\* that trigger nothing is sent upstream and nothing is broadcast.
C13_FailedQueryNotAnswered ==
    \A t \in TaskIds :
        (tasks[t].query_failed /\ (PastCycle(t) \/ tasks[t].at = "return")) =>
            /\ ~tasks[t].success
            /\ up_sent[t] = 0
            /\ \A c \in ClientIds : ~Received(c, tasks[t].frame.n)

\* a cycle with a failed query whose envelope went upstream and to a subscriber
C13_FailedQueryAnswered ==
    \E t \in TaskIds :
        /\ tasks[t].query_failed
        /\ tasks[t].success
        /\ up_sent[t] # 0
        /\ \E c \in ClientIds : Received(c, tasks[t].frame.n)

\* no listen task is left
LoopsEnded == \A t \in TaskIds : tasks[t].at \in {"none", "done"}

\* C14, as stated: after stop_listener returned "stopped", and unless a start
\* follows, the listen loop eventually terminates; meanwhile it makes no
\* further connection attempt and starts no cycle for a frame received after
\* the stop, while a cycle in progress goes on to its end.
C14_StopEndsLoop ==
    /\ ~is_active ~> (is_active \/ LoopsEnded)
    /\ [][(~is_active /\ ~is_active') =>
             \A t \in TaskIds :
                /\ tasks'[t].at = "connecting" => tasks[t].at = "connecting"
                /\ tasks'[t].at = "process_matching" =>
                      tasks[t].at = "process_matching"
                /\ (Processing(t) /\ ~Processing(t)') => tasks'[t].at = "recv"]_vars

\* the listener is stopped and a listen task waits for a frame on an open
\* connection that nothing closes
C14_StoppedButListening ==
    /\ ~is_active
    /\ \E t \in TaskIds : tasks[t].at = "recv" /\ conns[t] = "open"

\* C15, as stated: while the listener is active, every end of an upstream
\* connection (connection error, unexpected error, the server closing it) is
\* followed by a new connection attempt, and a task comes to that attempt
\* only from the wait of the reconnect delay (its first attempt apart).
C15_ReconnectAfterDelay ==
    [][\A t \in TaskIds :
          /\ (tasks'[t].at = "connecting" /\ tasks[t].at # "connecting") =>
                tasks[t].at \in {"created", "sleep"}
          /\ (is_active /\ is_active' /\ conns[t] # "none" /\ conns'[t] = "none") =>
                tasks'[t].at \in {"sleep", "connecting"}]_vars

\* C16, as stated: when trigger T1 is received from upstream before trigger
\* T2, every subscriber that receives both results receives T1's before
\* T2's, whatever the starts, stops, reconnects and subscribers do.
C16_ResultsInTriggerOrder ==
    \A c \in ClientIds : \A j, k \in 1..Len(inbox[c]) :
        (/\ j < k
         /\ inbox[c][j].type = "assignments_weighted"
         /\ inbox[c][k].type = "assignments_weighted") =>
            inbox[c][j].n < inbox[c][k].n

Answered(t) ==
    /\ tasks[t].success
    /\ tasks[t].at \in {"up_send", "broadcast", "client_send", "bcast_done", "return"}

\* C18, as stated: for every trigger frame whose cycle returns success
\* exactly one assignments_weighted envelope is produced; it is sent on the
\* upstream connection the trigger arrived on and broadcast to the
\* subscribers, and its message_listener is that triggering frame.
C18_OneEnvelopeOnArrivalConnection ==
    /\ \A t \in TaskIds :
          Answered(t) =>
             /\ up_sent[t] = tasks[t].conn
             /\ \A c \in ClientIds : \A k \in 1..Len(inbox[c]) :
                   inbox[c][k].n = tasks[t].frame.n =>
                       inbox[c][k] = Envelope(tasks[t].frame)
    /\ \A c \in ClientIds : \A j, k \in 1..Len(inbox[c]) :
          (j # k /\ inbox[c][j].type = "assignments_weighted") =>
              inbox[c][j].n # inbox[c][k].n

\* the result of a trigger went out on the connection of the other listen task
C18_SentOnOtherConnection ==
    \E t \in TaskIds :
        /\ Answered(t)
        /\ up_sent[t] # 0
        /\ up_sent[t] # tasks[t].conn

\* the result of a trigger went out on no upstream connection
C18_NotSentUpstream ==
    \E t \in TaskIds : Answered(t) /\ up_sent[t] = 0

\* C19, as stated: a broadcast is delivered to every subscriber that is in
\* the subscriber list for the whole duration of the broadcast, even when
\* other subscribers are added or removed while the broadcast is suspended
\* in a send; subscribers whose send failed are removed only after the
\* iteration.
C19_BroadcastReachesAllWhoStay ==
    \A t \in TaskIds :
        tasks[t].at = "bcast_done" =>
            \A c \in tasks[t].stayed : Alive(c) => Received(c, tasks[t].frame.n)

\* the loop of a broadcast is over and a live subscriber that was in the
\* list all the time has not got the envelope
C19_SkippedSubscriber ==
    \E t \in TaskIds :
        /\ tasks[t].at = "bcast_done"
        /\ \E c \in tasks[t].stayed :
              /\ Alive(c)
              /\ ~Received(c, tasks[t].frame.n)
              /\ \E k \in 1..Len(connected_clients) : connected_clients[k] = c

\* C20: the first message a subscriber of /ws receives is the initial_data
\* message, and it receives it once; no broadcast envelope reaches it before,
\* whatever broadcast is under way when it connects. (A send hands its
\* message to the subscriber's socket when it is called; messages of one
\* socket arrive in the order handed over.)
C20_InitialDataFirst ==
    \A c \in ClientIds :
        /\ inbox[c] # <<>> =>
              /\ inbox[c][1] = InitialData
              /\ \A k \in 2..Len(inbox[c]) : inbox[c][k].type # "initial_data"
        /\ (c \in SeqToSet(connected_clients) /\ Alive(c)) => inbox[c] # <<>>

\* a subscriber that connected while a broadcast was suspended in a send has
\* got that broadcast's envelope, after its initial message
C20_Witness ==
    \E t \in TaskIds : \E c \in ClientIds :
        /\ tasks[t].at \in {"client_send", "bcast_done"}
        /\ c \notin tasks[t].stayed
        /\ Alive(c)
        /\ Len(inbox[c]) = 2
        /\ inbox[c][2] = Envelope(tasks[t].frame)

----------------------------------------------------------------------------
(* Properties of the cache *)

\* the frame numbers of the results a subscriber has been sent in a broadcast
BroadcastTo(c) ==
    {inbox[c][k].n : k \in {j \in DOMAIN inbox[c] : inbox[c][j].type = "assignments_weighted"}}

\* the data a cached item list replays
Replayed(items) == {items[k].data : k \in DOMAIN items}

\* C21: a result that was broadcast is in the cache, so a subscriber that
\* connects afterwards gets it in the data of its initial_data message.
C21_BroadcastIsReplayed ==
    [][\A c \in ClientIds :
         (inbox[c] = <<>> /\ inbox'[c] # <<>>) =>
            \A d \in ClientIds : BroadcastTo(d) \subseteq Replayed(inbox'[c][1].data)]_vars

\* the items a sequence holds
Items(seq) == {seq[k] : k \in DOMAIN seq}

Returns(t, op) == callers[t].op = op /\ callers[t].at = "release"

\* C22: after any sequence of adds, on either backend, the current_size that
\* get_stats reports is at most max_size (the oldest entries having been
\* evicted).
C22_ReportedSizeBounded ==
    \A t \in CacheThreads :
        Returns(t, "get_stats") => callers[t].current_size <= CacheMaxSize

\* the thread is inside the `with self._lock` block of an operation
Inside(t) == callers[t].at \notin {"idle", "close"}

\* C23: under any interleaving of calls from concurrent threads the cache's
\* operations run one at a time, by the thread holding the lock, and
\* total_messages is the number of adds completed since the last clear.
C23_OneAtATimeAndCounted ==
    /\ \A t \in CacheThreads : Inside(t) => lock = t
    /\ total_messages = Len(added)

\* two adds are counted, the later one having written its item to Redis and
\* then completed on the in-memory fallback
C23_Witness ==
    \E t \in CacheThreads :
        /\ Returns(t, "add")
        /\ callers[t].item \in Items(redis_zset)
        /\ callers[t].item \in Items(fallback_cache)
        /\ Len(added) = 2
        /\ total_messages = 2

\* C24: for every limit >= 0, get_recent(limit) returns at most limit
\* entries; get_recent(0) returns no entry.
C24_AtMostLimit ==
    \A t \in CacheThreads :
        Returns(t, "get_recent") => Len(callers[t].result) <= callers[t].limit

\* the entries added since the last clear and not evicted: the max_size newest
Newest ==
    {added[k] : k \in {j \in DOMAIN added : j > Len(added) - CacheMaxSize}}

InRange(item, range) == range[1] <= item.timestamp /\ item.timestamp <= range[2]

\* C25: get_by_timerange(start, end) returns exactly the entries added, not
\* yet evicted or cleared (and here none older than the TTL), whose stamp t
\* has start <= t <= end.
C25_ExactlyTheRange ==
    \A t \in CacheThreads :
        (Returns(t, "get_by_timerange") /\ \A x \in Items(added) : Fresh(x, now)) =>
            Items(callers[t].result) = {x \in Newest : InRange(x, callers[t].range)}

\* C26: Redis failing at the health check or at a command of an operation
\* makes the operation go on in memory; get_stats answers backend "memory"
\* when Redis is unreachable; and an operation called when Redis is reachable
\* again (the cache having marked it unavailable, or never having lost it)
\* reconnects and uses Redis.
C26_FallbackAndLazyReconnect ==
    [][\A t \in CacheThreads :
         /\ (callers[t].at = "idle" /\ Inside(t)' /\ ~redis_up) =>
                callers'[t].at = "fallback"
         /\ (callers[t].at \in RedisCommands /\ callers'[t] # callers[t] /\ ~redis_up) =>
                callers'[t].at = "fallback"
         /\ (~Returns(t, "get_stats") /\ Returns(t, "get_stats")' /\ ~redis_up) =>
                callers'[t].backend = "memory"
         /\ (callers[t].at = "idle" /\ Inside(t)' /\ redis_up
               /\ (~redis_available \/ redis_client)) =>
                callers'[t].at \in RedisCommands /\ redis_available']_vars

\* an add lost Redis after writing its item there and completed in memory,
\* and a later get_recent is served by Redis again
C26_Witness ==
    \E t \in CacheThreads :
        /\ Returns(t, "get_recent")
        /\ callers[t].backend = "redis"
        /\ callers[t].result # <<>>
        /\ \E x \in Items(fallback_cache) : x \in Items(redis_zset)

\* C37, as stated: every entry add accepted that has not expired, been
\* evicted by the size bound or cleared is returned by get_recent when the
\* limit is large enough, whatever Redis failures and recoveries happened
\* between the add and the read.
C37_AddedIsReturned ==
    \A t \in CacheThreads :
        (Returns(t, "get_recent") /\ callers[t].limit >= CacheMaxSize) =>
            {x \in Newest : Fresh(x, now)} \subseteq Items(callers[t].result)

\* the deque of a cache that served every add of `hist` in memory
RECURSIVE MemoryStore(_)
MemoryStore(hist) ==
    IF hist = <<>> THEN <<>>
    ELSE deque_append(MemoryStore(SubSeq(hist, 1, Len(hist) - 1)), hist[Len(hist)],
                      CacheMaxSize)

\* the sorted set of a cache that served every add of `hist` on Redis
RECURSIVE RedisStore(_)
RedisStore(hist) ==
    IF hist = <<>> THEN <<>>
    ELSE LET z == zadd(RedisStore(SubSeq(hist, 1, Len(hist) - 1)), hist[Len(hist)])
         IN  IF Len(z) > CacheMaxSize
             THEN zremrangebyrank(z, Len(z) - CacheMaxSize - 1)
             ELSE z

\* the adds since the last clear were made at different times, all of them
\* less than the TTL ago, and Redis holds what serving all of them leaves
RedisServedAll ==
    /\ \A k, l \in DOMAIN added : k # l => added[k].timestamp # added[l].timestamp
    /\ \A k \in DOMAIN added : now - added[k].timestamp < CacheTtl
    /\ Key.zset = RedisStore(added)

\* C38, as stated: for the same adds at the same times, a read served by
\* Redis returns the same entries in the same order as the read served by
\* the in-memory store, for get_recent and for get_by_timerange.
C38_SameOnBothBackends ==
    [][\A t \in CacheThreads :
         /\ (callers[t].at = "zrevrange" /\ callers'[t].at = "release"
                /\ RedisServedAll) =>
               callers'[t].result =
                   get_recent_memory(MemoryStore(added), callers[t].limit, now)
         /\ (callers[t].at = "zrangebyscore" /\ callers'[t].at = "release"
                /\ RedisServedAll) =>
               callers'[t].result =
                   SelectSeq(MemoryStore(added),
                             LAMBDA x : InRange(x, callers[t].range))]_vars

----------------------------------------------------------------------------
(* Properties of the matcher on empty tables, and of the cycle result *)

\* C27: on empty AIS and ARPA tables build_candidates returns no candidates,
\* and assign_one_to_one on them returns, without raising, no matches and
\* empty unmatched lists.
C27_EmptyTablesEmptyResult ==
    (pc \in {"assigned", "raised"} /\ arpa_df = <<>> /\ ais_df = <<>>) =>
        /\ candidates = <<>>
        /\ pc = "assigned"
        /\ matches = <<>>
        /\ unmatched_arpa_ids = <<>>

\* what the Scorer computes for the pair of rows i of ais_df and j of arpa_df
Scored(i, j) == feature_score(extract_features(ais_df[i], arpa_df[j]), scoring_params)

\* C28: the sub-scores a matched pair reports in its features are the ones
\* the Scorer computed for the pair, whose weighted sum is the pair's score.
C28_ReportedSubScores ==
    CycleDone =>
        \A k \in 1..Len(MatchedPairs) :
            LET p == MatchedPairs[k]
            IN  \E i \in DOMAIN ais_df, j \in DOMAIN arpa_df :
                   /\ ais_df[i].ais_id = p.ais_id
                   /\ arpa_df[j].arpa_id = p.arpa_id
                   /\ p.score = Scored(i, j).s_total
                   /\ p.features.s_pos = Scored(i, j).s_pos
                   /\ p.features.s_spd = Scored(i, j).s_spd
                   /\ p.features.s_hdg = Scored(i, j).s_brg
                   /\ p.features.s_time = Scored(i, j).s_time
                   /\ p.features.s_range = Scored(i, j).s_range
                   /\ p.features.s_brg = Scored(i, j).s_brg_geo

\* C29: every cycle result with success = true contains a geojson
\* FeatureCollection with exactly three features per matched pair (an AIS
\* Point, an ARPA Point and a LineString, each carrying the pair's score),
\* results without matched pairs included.
C29_GeojsonThreePerPair ==
    (CycleDone /\ result.success) =>
        /\ HasKey(result.data, "geojson")
        /\ result.data.geojson.type = "FeatureCollection"
        /\ Len(result.data.geojson.features) = 3 * Len(MatchedPairs)
        /\ \A k \in 1..Len(MatchedPairs) :
              LET f == result.data.geojson.features
              IN  /\ f[3 * k - 2].geometry.type = "Point"
                  /\ f[3 * k - 2].properties.type = "ais"
                  /\ f[3 * k - 1].geometry.type = "Point"
                  /\ f[3 * k - 1].properties.type = "arpa"
                  /\ f[3 * k].geometry.type = "LineString"
                  /\ \A n \in {3 * k - 2, 3 * k - 1, 3 * k} :
                        f[n].properties.score = MatchedPairs[k].score

\* the record lies in the bounding box of the polygon's outer ring
WithinBbox(r, poly) ==
    LET bbox == _calculate_bbox(poly)
    IN  /\ bbox.min_lat <= r.lat /\ r.lat <= bbox.max_lat
        /\ bbox.min_lon <= r.lon /\ r.lon <= bbox.max_lon

\* the records of the current polygon have been selected
Sanitized == pc \in {"sanitized", "match", "done"}

\* C30: with a polygon (a non-empty outer ring) every AIS and ARPA record
\* that survives the sanitize step lies within the polygon's bounding box.
C30_SurvivorsWithinBbox ==
    (Sanitized /\ Truthy(polygon) /\ Len(polygon[1]) > 0) =>
        /\ \A k \in 1..Len(ais_data) : WithinBbox(ais_data[k], polygon)
        /\ \A k \in 1..Len(arpa_data) : WithinBbox(arpa_data[k], polygon)

\* a record on the western edge of the box of a ring of its own survives
C30_Witness ==
    /\ pc = "sanitized"
    /\ Len(polygon[1]) > 0
    /\ ais_data # <<>>
    /\ arpa_data # <<>>
    /\ ais_data[1].lon = _calculate_bbox(polygon).min_lon
    /\ ais_data[1].lat > _calculate_bbox(polygon).min_lat

----------------------------------------------------------------------------
(* Properties of record times, the projection and the listener's tasks *)

\* the record's timestamp is there and can be parsed
Stamped(ts) == ts.kind \notin {"none", "invalid"}

\* the ids of the fetched records without a usable timestamp
UnstampedAis == {ais_data[k].mmsi : k \in {n \in DOMAIN ais_data : ~Stamped(ais_data[n].ts)}}
UnstampedArpa ==
    {arpa_data[k].target : k \in {n \in DOMAIN arpa_data : ~Stamped(arpa_data[n].recv_at)}}

\* C31: a record whose timestamp is missing or unparsable is skipped: it is
\* in no candidate and in no matched pair of the cycle.
C31_UnstampedSkipped ==
    CycleDone =>
        /\ \A k \in DOMAIN candidates :
              /\ candidates[k].ais_id \notin UnstampedAis
              /\ candidates[k].arpa_id \notin UnstampedArpa
        /\ \A k \in DOMAIN MatchedPairs :
              /\ MatchedPairs[k].ais_id \notin UnstampedAis
              /\ MatchedPairs[k].arpa_id \notin UnstampedArpa

\* C32: with the projection library available and an EPSG/UTM projection
\* configured, the planar coordinates used for scoring are those of the
\* projection's transformer.
C32_ProjectedByTransformer ==
    (CycleDone /\ pyproj_available) =>
        /\ \A k \in DOMAIN ais_df :
              LET p == utm_transform(ais_data[k].lat, ais_data[k].lon, SITE_LAT, SITE_LON)
              IN  ais_df[k].x = p.x /\ ais_df[k].y = p.y
        /\ \A k \in DOMAIN arpa_df :
              LET p == utm_transform(arpa_data[k].lat, arpa_data[k].lon, SITE_LAT, SITE_LON)
              IN  arpa_df[k].x = p.x /\ arpa_df[k].y = p.y


\* The listen tasks that have entered listen() and have not returned from it.
ListenLoops == {t \in TaskIds : tasks[t].at \notin {"none", "created", "done"}}

\* C33, as stated: at any time at most one upstream listen loop is alive,
\* under any interleaving of startup, start_listener, stop_listener, the
\* reconnect delays and the ends of the upstream connection.
C33_AtMostOneLoop ==
    Cardinality(ListenLoops) <= 1


\* The listen tasks that exist and have not returned: created by lifespan or
\* by start_listener, running or not yet scheduled.
PendingLoops == {t \in TaskIds : tasks[t].at \notin {"none", "done"}}

\* C34, as stated: after start_listener returned "started", and until a stop,
\* a listen loop is running or about to run. Only start_listener creates a
\* listen task and it does so only when is_active is false, so a state with
\* is_active true and no listen task left stays so until the next stop:
\* the claim is that no such state is reachable.
C34_ActiveHasLoop ==
    is_active => PendingLoops # {}


----------------------------------------------------------------------------
(* Properties of the accepted set *)

MatchedArpaIds == {matches[k].arpa_id : k \in 1..Len(matches)}
MatchedAisIds == {matches[k].ais_id : k \in 1..Len(matches)}

\* C35, as stated: after assign_one_to_one, no candidate whose s_total is at
\* least accept_threshold has both its ARPA id and its AIS id left without a
\* matched pair, for every candidate list and threshold.
C35_AcceptedSetMaximal ==
    pc = "assigned" =>
        \A k \in 1..Len(candidates) :
            candidates[k].s_total >= accept_threshold =>
                \/ candidates[k].arpa_id \in MatchedArpaIds
                \/ candidates[k].ais_id \in MatchedAisIds


\* candidate k is the only candidate of its ARPA id and of its AIS id
OnlyCandidate(k) ==
    \A l \in 1..Len(candidates) :
        l # k => /\ candidates[l].arpa_id # candidates[k].arpa_id
                 /\ candidates[l].ais_id # candidates[k].ais_id

IsMatched(c) ==
    \E l \in 1..Len(matches) :
        /\ matches[l].arpa_id = c.arpa_id
        /\ matches[l].ais_id = c.ais_id
        /\ matches[l].score = c.s_total

\* C36: a candidate (a, i) with s_total >= accept_threshold that is the only
\* candidate of ARPA a and the only candidate of AIS i is a matched pair,
\* whatever the other rows and candidates and the shape of the cost matrix.
C36_LoneCandidateMatched ==
    pc = "assigned" =>
        \A k \in 1..Len(candidates) :
            (candidates[k].s_total >= accept_threshold /\ OnlyCandidate(k)) =>
                IsMatched(candidates[k])

\* a lone candidate exactly at the threshold is matched in a table with more
\* ARPA rows than AIS rows, next to other candidates
C36_Witness ==
    /\ pc = "assigned"
    /\ Len(arpa_df) > Len(ais_df)
    /\ Len(candidates) >= 3
    /\ \E k \in 1..Len(candidates) :
          /\ candidates[k].s_total = accept_threshold
          /\ OnlyCandidate(k)
          /\ IsMatched(candidates[k])


----------------------------------------------------------------------------
(* Properties of parse_time_s and angle_diff_deg *)

\* C39, as stated: parse_time_s of an epoch number n of seconds is n seconds,
\* so two observations stamped n and n + k have dt_s = k; of a missing or
\* invalid timestamp it is 0.
C39_EpochSecondsKept ==
    pc = "parsed" =>
        /\ features.ts.kind = "number" => scores.ais_t = features.ts.v
        /\ features.recv_at.kind = "number" => scores.arpa_t = features.recv_at.v
        /\ (features.ts.kind = "number" /\ features.recv_at.kind = "number") =>
              scores.dt_s = Abs(features.recv_at.v - features.ts.v)
        /\ ~Stamped(features.ts) => scores.ais_t = 0
        /\ ~Stamped(features.recv_at) => scores.arpa_t = 0

\* C40: for all whole-degree angles a and b, negative ones and ones outside
\* [0, 360) included, angle_diff_deg(a, b) = angle_diff_deg(b, a) and the
\* result is in [0, 180].
C40_SymmetricWithinHalfTurn ==
    pc = "angled" =>
        /\ scores.ab = scores.ba
        /\ 0 <= scores.ab /\ scores.ab <= 180

\* a negative angle against one of a turn or more, the raw difference beyond
\* the half turn one way and within it the other way
C40_Witness ==
    /\ pc = "angled"
    /\ features.a < 0
    /\ features.b >= 360
    /\ (features.a - features.b) % 360 > 180
    /\ (features.b - features.a) % 360 < 180
    /\ scores.ab = scores.ba
    /\ scores.ab > 0

====
